---- MODULE Spec2Model ----
(***************************************************************************)
(* A model of the KFP v2 DSL compiler (sdk/python/kfp/v2/compiler/         *)
(* compiler.py): the scope indexer, the condition-parameter propagator,    *)
(* the loop registry, the I/O resolver, the dependency resolver and the    *)
(* scope-to-IR emitter, run as the phases of one compilation of a scope    *)
(* tree drawn from a bounded universe.                                     *)
(***************************************************************************)
EXTENDS Integers, Sequences, FiniteSets, TLC

(***************************************************************************)
(* Bounds of the scope-tree universe.                                      *)
(***************************************************************************)
NumGroups == 2
NumOps == 2

GroupIds == 1..NumGroups
OpIds == 1..NumOps

(***************************************************************************)
(* Names.  A name is a pair <<kind, number>> standing for the string       *)
(* "<kind>-<number>"; Python's None is the pair None.                      *)
(***************************************************************************)
None == <<"None", 0>>
NoValue == "None"

OpName(i) == <<"op", i>>
GroupName(ty, i) == <<ty, i>>
RootNames == {<<"uuid", 1>>, <<"uuid", 2>>}

\* Lexicographic order of the name strings, as list.sort() compares them.
PrefixRank(p) ==
  CASE p = "None" -> 0
    [] p = "condition" -> 1
    [] p = "exit_handler" -> 2
    [] p = "for_loop" -> 3
    [] p = "ghost" -> 4
    [] p = "graph" -> 5
    [] p = "op" -> 6
    [] p = "subgraph" -> 7
    [] OTHER -> 8

NameLess(a, b) ==
  \/ PrefixRank(a[1]) < PrefixRank(b[1])
  \/ PrefixRank(a[1]) = PrefixRank(b[1]) /\ a[2] < b[2]

(***************************************************************************)
(* Generic helpers on sequences and dicts (functions from names).          *)
(***************************************************************************)
Last(s) == s[Len(s)]

Reverse(s) == [i \in 1..Len(s) |-> s[Len(s) + 1 - i]]

SeqToSet(s) == {s[i] : i \in 1..Len(s)}

RECURSIVE SortedIds(_)
SortedIds(S) ==
  IF S = {} THEN << >>
  ELSE LET m == CHOOSE x \in S : \A y \in S : x <= y
       IN <<m>> \o SortedIds(S \ {m})

EmptyDict == [x \in {} |-> None]

Put(d, k, v) == [x \in (DOMAIN d) \cup {k} |-> IF x = k THEN v ELSE d[x]]

\* collections.defaultdict(set): a missing key reads as the empty set.
Get(d, k) == IF k \in DOMAIN d THEN d[k] ELSE {}

(***************************************************************************)
(* Pipeline parameters (dsl.PipelineParam).  A parameter's name is a       *)
(* sequence of tokens, so that "x in y" on names is a test for a           *)
(* contiguous subsequence.                                                 *)
(***************************************************************************)
Param(name, op_name, value, ptype) ==
  [name |-> name, op_name |-> op_name, value |-> value, param_type |-> ptype]

\* bool(param.value): None and the empty string are falsy.
Truthy(v) == v \notin {NoValue, ""}

\* PipelineParam.__hash__: hash((op_name, name)); with the overloaded __eq__
\* two parameters of one hash are one member of a set.
ParamKey(p) == <<p.op_name, p.name>>

\* PipelineParam.pattern is built from op_name and name.
Pattern(p) == <<p.op_name, p.name>>

\* "a in b" on two names.
NameIn(a, b) ==
  \E k \in 0..(Len(b) - Len(a)) : \A i \in 1..Len(a) : b[k + i] = a[i]

(***************************************************************************)
(* The scope tree.  tree.groups[i] and tree.ops[i] are dsl.OpsGroup and    *)
(* dsl.BaseOp objects in creation order; a group's child lists are the     *)
(* entities whose parent it is, in that order.                             *)
(***************************************************************************)
GroupNames(t) == {t.groups[i].name : i \in GroupIds}
OpNames(t) == {t.ops[i].name : i \in OpIds}

GroupByName(t, n) == t.groups[CHOOSE i \in GroupIds : t.groups[i].name = n]
OpByName(t, n) == t.ops[CHOOSE i \in OpIds : t.ops[i].name = n]

\* group.groups and group.ops of the group named n.
ChildGroups(t, n) == SortedIds({i \in GroupIds : t.groups[i].parent = n})
ChildOps(t, n) == SortedIds({i \in OpIds : t.ops[i].parent = n})

IsAlias(g) == g.recursive_ref # None

(***************************************************************************)
(* Scope indexer.                                                          *)
(***************************************************************************)
RECURSIVE GetOpGroupsHelper(_, _, _)
RECURSIVE GetOpGroupsLoop(_, _, _, _)

\* the "for g in root_group.groups" loop of _get_op_groups_helper, from child k.
GetOpGroupsLoop(t, current_groups, k, ops_to_groups) ==
  LET gs == ChildGroups(t, Last(current_groups))
  IN IF k > Len(gs) THEN ops_to_groups
     ELSE LET g == t.groups[gs[k]]
          IN IF IsAlias(g)
             THEN GetOpGroupsLoop(t, current_groups, k + 1,
                    Put(ops_to_groups, g.name, current_groups \o <<g.name>>))
             ELSE GetOpGroupsLoop(t, current_groups, k + 1,
                    GetOpGroupsHelper(t, current_groups \o <<g.name>>, ops_to_groups))

OpsPathsMutant(t, current_groups, d) ==
  LET os == ChildOps(t, Last(current_groups))
  IN [n \in (DOMAIN d) \cup {t.ops[os[i]].name : i \in 1..Len(os)} |->
        IF \E i \in 1..Len(os) : t.ops[os[i]].name = n
        THEN current_groups
        ELSE d[n]]

\* the "for op in root_group.ops" loop: every op of the group gets its path.
OpsPaths(t, current_groups, d) ==
  LET os == ChildOps(t, Last(current_groups))
  IN [n \in (DOMAIN d) \cup {t.ops[os[i]].name : i \in 1..Len(os)} |->
        IF \E i \in 1..Len(os) : t.ops[os[i]].name = n
        THEN current_groups \o <<n>>
        ELSE d[n]]

GetOpGroupsHelper(t, current_groups, ops_to_groups) ==
  OpsPaths(t, current_groups, GetOpGroupsLoop(t, current_groups, 1, ops_to_groups))

GetGroupsForOps(t) == GetOpGroupsHelper(t, <<t.root>>, EmptyDict)

RECURSIVE GetOpsgroupGroupsHelper(_, _, _, _)

\* _get_opsgroup_groups_helper, its loop taken from child k.
GetOpsgroupGroupsHelper(t, current_groups, k, opsgroups_to_groups) ==
  LET gs == ChildGroups(t, Last(current_groups))
  IN IF k > Len(gs) THEN opsgroups_to_groups
     ELSE LET g == t.groups[gs[k]]
          IN IF IsAlias(g)
             THEN GetOpsgroupGroupsHelper(t, current_groups, k + 1, opsgroups_to_groups)
             ELSE GetOpsgroupGroupsHelper(t, current_groups, k + 1,
                    GetOpsgroupGroupsHelper(t, current_groups \o <<g.name>>, 1,
                      Put(opsgroups_to_groups, g.name, current_groups \o <<g.name>>)))

GetGroupsForOpsgroups(t) == GetOpsgroupGroupsHelper(t, <<t.root>>, 1, EmptyDict)

RECURSIVE GetGroupsHelper(_, _, _)

\* _get_groups: the names of all groups with a template of their own, in the
\* insertion order of the returned dict (a group, then its subtrees).
GetGroupsHelper(t, n, k) ==
  LET gs == ChildGroups(t, n)
  IN IF k > Len(gs) THEN << >>
     ELSE LET g == t.groups[gs[k]]
          IN (IF IsAlias(g) THEN << >>
              ELSE <<g.name>> \o GetGroupsHelper(t, g.name, 1))
             \o GetGroupsHelper(t, n, k + 1)

GetGroups(t) == <<t.root>> \o GetGroupsHelper(t, t.root, 1)

\* every zipped position taken as common
CommonGroupsLenRootOnly(p1, p2) == 1

CommonGroupsLenMutant(p1, p2) == IF Len(p1) < Len(p2) THEN Len(p1) ELSE Len(p2)

\* sum(1 for x in zip(p1, p2) if x == (x[0],) * len(x))
CommonGroupsLen(p1, p2) ==
  LET m == IF Len(p1) < Len(p2) THEN Len(p1) ELSE Len(p2)
  IN Cardinality({i \in 1..m : p1[i] = p2[i]})

\* the split keeps the last common group in the suffix
DropMutant(s, k) == SubSeq(s, IF k > 0 THEN k ELSE 1, Len(s))

Drop(s, k) == SubSeq(s, k + 1, Len(s))

\* a name in neither map has the empty path
GetUncommonAncestorsMutant(op_groups, opsgroup_groups, n1, n2) ==
  LET path(n) == IF n \in DOMAIN op_groups THEN op_groups[n]
                 ELSE IF n \in DOMAIN opsgroup_groups THEN opsgroup_groups[n]
                 ELSE << >>
      c == CommonGroupsLen(path(n1), path(n2))
  IN [err |-> FALSE, group1 |-> Drop(path(n1), c), group2 |-> Drop(path(n2), c)]

\* _get_uncommon_ancestors; err stands for the raised ValueError.
GetUncommonAncestors(op_groups, opsgroup_groups, n1, n2) ==
  LET known(n) == n \in DOMAIN op_groups \/ n \in DOMAIN opsgroup_groups
      path(n) == IF n \in DOMAIN op_groups THEN op_groups[n] ELSE opsgroup_groups[n]
  IN IF ~known(n1) \/ ~known(n2)
     THEN [err |-> TRUE, group1 |-> << >>, group2 |-> << >>]
     ELSE LET c == CommonGroupsLen(path(n1), path(n2))
          IN [err |-> FALSE, group1 |-> Drop(path(n1), c), group2 |-> Drop(path(n2), c)]

(***************************************************************************)
(* Condition-parameter propagator.  A member of a condition set is the     *)
(* operand object itself, named here by its place <<group id, operand>>;   *)
(* CondParam reads the object through the tree.                            *)
(***************************************************************************)
Operand(g, k) == IF k = 1 THEN g.operand1 ELSE g.operand2

CondParam(t, ref) == Operand(t.groups[ref[1]], ref[2]).param

\* set.add on a set of parameters: a parameter of a hash already present is
\* not added again.
AddRef(t, S, ref) ==
  IF \E r \in S : ParamKey(CondParam(t, r)) = ParamKey(CondParam(t, ref))
  THEN S ELSE S \cup {ref}

RECURSIVE AddRefs(_, _, _)
AddRefs(t, S, refs) ==
  IF refs = << >> THEN S
  ELSE AddRefs(t, AddRef(t, S, Head(refs)), Tail(refs))

\* the operands a condition group appends: those that are PipelineParams.
OwnConditionParamsMutant(t, i) == << >>

OwnConditionParams(t, i) ==
  LET g == t.groups[i]
  IN IF g.type # "condition" THEN << >>
     ELSE (IF g.operand1.is_param THEN << <<i, 1>> >> ELSE << >>)
          \o (IF g.operand2.is_param THEN << <<i, 2>> >> ELSE << >>)

RECURSIVE GetConditionParamsHelper(_, _, _, _, _)

\* _get_condition_params_for_ops_helper for the group named n, whose list of
\* active condition parameters is params; k walks "for g in group.groups".
GetConditionParamsHelper(t, n, params, k, conditions) ==
  LET gs == ChildGroups(t, n)
      os == ChildOps(t, n)
      withOps ==
        IF params = << >> THEN conditions
        ELSE [x \in (DOMAIN conditions) \cup {t.ops[os[j]].name : j \in 1..Len(os)} |->
               IF \E j \in 1..Len(os) : t.ops[os[j]].name = x
               THEN AddRefs(t, Get(conditions, x), params)
               ELSE conditions[x]]
      start == IF k = 1 THEN withOps ELSE conditions
  IN IF k > Len(gs) THEN start
     ELSE LET g == t.groups[gs[k]]
          IN IF IsAlias(g)
             THEN GetConditionParamsHelper(t, n, params, k + 1,
                    IF params = << >> THEN start
                    ELSE Put(start, g.name, AddRefs(t, Get(start, g.name), params)))
             ELSE GetConditionParamsHelper(t, n, params, k + 1,
                    GetConditionParamsHelper(t, g.name,
                      params \o OwnConditionParams(t, gs[k]), 1, start))

GetConditionParamsForOps(t) ==
  GetConditionParamsHelper(t, t.root, << >>, 1, EmptyDict)

(***************************************************************************)
(* Loop registry.                                                          *)
(***************************************************************************)
\* _get_all_subgroups_and_ops: the ops, then the groups, of an entity; an op
\* has neither attribute.
GetAllSubgroupsAndOps(t, n) ==
  IF n[1] = "op" THEN << >>
  ELSE [j \in 1..Len(ChildOps(t, n)) |-> t.ops[ChildOps(t, n)[j]].name]
       \o [j \in 1..Len(ChildGroups(t, n)) |-> t.groups[ChildGroups(t, n)[j]].name]

IsParallelFor(t, n) == n \in GroupNames(t) /\ GroupByName(t, n).type = "for_loop"

RECURSIVE ForLoopVisit(_, _, _, _)

\* the while loop of _get_for_loop_ops over the to_visit queue.
ForLoopVisit(t, to_visit, already_visited, found) ==
  IF to_visit = << >> THEN found
  ELSE LET next == Head(to_visit)
       IN IF next \in already_visited
          THEN ForLoopVisit(t, Tail(to_visit), already_visited, found)
          ELSE ForLoopVisit(t, Tail(to_visit) \o GetAllSubgroupsAndOps(t, next),
                 already_visited \cup {next},
                 IF IsParallelFor(t, next) THEN found \cup {next} ELSE found)

\* the key set of op_name_to_for_loop_op.
GetForLoopOps(t) == ForLoopVisit(t, GetAllSubgroupsAndOps(t, t.root), {}, {})

(***************************************************************************)
(* Iteration over a Python set.  The order is not fixed by the language;   *)
(* order chooses between two of them.                                      *)
(***************************************************************************)
RECURSIVE RefsToSeq(_, _)
RefsToSeq(S, order) ==
  IF S = {} THEN << >>
  ELSE LET key(r) == 2 * r[1] + r[2]
           m == CHOOSE x \in S : \A y \in S :
                  IF order = "asc" THEN key(x) <= key(y) ELSE key(x) >= key(y)
       IN <<m>> \o RefsToSeq(S \ {m}, order)

RECURSIVE NamesToSeq(_, _)
NamesToSeq(S, order) ==
  IF S = {} THEN << >>
  ELSE LET m == CHOOSE x \in S : \A y \in S \ {x} :
                  IF order = "asc" THEN NameLess(x, y) ELSE NameLess(y, x)
       IN <<m>> \o NamesToSeq(S \ {m}, order)

(***************************************************************************)
(* I/O resolver: the type-unification pass.  A referencing site is a place *)
(* that holds a PipelineParam object: <<"arg", i, 0>>, <<"in", op, j>>,    *)
(* <<"out", op, j>> or <<"cond", group, operand>>.                         *)
(***************************************************************************)
SiteParam(t, s) ==
  CASE s[1] = "arg" -> t.args[s[2]]
    [] s[1] = "in" -> t.ops[s[2]].inputs[s[3]]
    [] s[1] = "out" -> t.ops[s[2]].outputs[s[3]]
    [] OTHER -> CondParam(t, <<s[2], s[3]>>)

SetSiteType(t, s, ty) ==
  CASE s[1] = "arg" -> [t EXCEPT !.args[s[2]].param_type = ty]
    [] s[1] = "in" -> [t EXCEPT !.ops[s[2]].inputs[s[3]].param_type = ty]
    [] s[1] = "out" -> [t EXCEPT !.ops[s[2]].outputs[s[3]].param_type = ty]
    [] s[1] = "cond" /\ s[3] = 1 ->
         [t EXCEPT !.groups[s[2]].operand1.param.param_type = ty]
    [] OTHER -> [t EXCEPT !.groups[s[2]].operand2.param.param_type = ty]

\* op.inputs + list(op.outputs.values()) + list(condition_params[op.name])
OpSites(t, condition_params, i, order) ==
  LET op == t.ops[i]
      refs == RefsToSeq(Get(condition_params, op.name), order)
  IN [j \in 1..Len(op.inputs) |-> <<"in", i, j>>]
     \o [j \in 1..Len(op.outputs) |-> <<"out", i, j>>]
     \o [j \in 1..Len(refs) |-> <<"cond", refs[j][1], refs[j][2]>>]

RECURSIVE AllOpSites(_, _, _, _)
AllOpSites(t, condition_params, i, order) ==
  IF i > NumOps THEN << >>
  ELSE OpSites(t, condition_params, i, order)
       \o AllOpSites(t, condition_params, i + 1, order)

\* all_params = {param.pattern: param for param in args}
RECURSIVE ArgsRep(_, _, _)
ArgsRep(t, i, rep) ==
  IF i > Len(t.args) THEN rep
  ELSE ArgsRep(t, i + 1, Put(rep, Pattern(t.args[i]), <<"arg", i, 0>>))

\* param.param_type or all_params[param.pattern].param_type
TypeOr(a, b) == IF a # "None" THEN a ELSE b

RECURSIVE UnifySites(_, _, _)
\* the body of the loop at a site: the first site of a pattern is recorded,
\* a later one takes the recorded parameter's type if it has none and writes
\* its own type back.
UnifySites(t, rep, sites) ==
  IF sites = << >> THEN t
  ELSE LET s == Head(sites)
           pat == Pattern(SiteParam(t, s))
       IN IF pat \notin DOMAIN rep
          THEN UnifySites(t, Put(rep, pat, s), Tail(sites))
          ELSE LET ty == TypeOr(SiteParam(t, s).param_type,
                                SiteParam(t, rep[pat]).param_type)
               IN UnifySites(SetSiteType(SetSiteType(t, s, ty), rep[pat], ty),
                             rep, Tail(sites))

UnifyTypes(t, condition_params, order) ==
  UnifySites(t, ArgsRep(t, 1, EmptyDict), AllOpSites(t, condition_params, 1, order))

(***************************************************************************)
(* I/O resolver: the input and output sets.  inputs and outputs map a      *)
(* scope name to a set of entries (param, producing scope or None).        *)
(***************************************************************************)
Entry(param, src) == [param |-> param, src |-> src]

\* inputs[k].add(e): an equal tuple already present is kept.
AddEntry(d, k, e) ==
  IF \E x \in Get(d, k) : ParamKey(x.param) = ParamKey(e.param) /\ x.src = e.src
  THEN Put(d, k, Get(d, k))
  ELSE Put(d, k, Get(d, k) \cup {e})

\* the source recorded for the i-th downstream group (0-based i in the code).
DownSourceMutant(up, i) == up[1]

DownSource(up, i) == IF i = 1 THEN up[1] ELSE None

RECURSIVE AddDownstream(_, _, _, _, _, _)
\* "for i, group_name in enumerate(downstream_groups)"; skip_last is the
\* alias refinement for condition parameters.
AddDownstream(inputs, param, up, down, i, skip_last) ==
  IF i > Len(down) THEN inputs
  ELSE AddDownstream(
         IF i # 1 /\ i = Len(down) /\ skip_last THEN inputs
         ELSE AddEntry(inputs, down[i], Entry(param, DownSource(up, i))),
         param, up, down, i + 1, skip_last)

RECURSIVE AddUpstream(_, _, _, _)
\* "for i, group_name in enumerate(upstream_groups)"
AddUpstream(outputs, param, up, i) ==
  IF i > Len(up) THEN outputs
  ELSE AddUpstream(
         AddEntry(outputs, up[i],
                  Entry(param, IF i = Len(up) THEN None ELSE up[i + 1])),
         param, up, i + 1)

\* the loop-boundary test: the scope is a loop and its loop_args.name occurs
\* in the parameter's name.
StopsAtLoopMutant(t, loops, group_name, param) == FALSE

StopsAtLoop(t, loops, group_name, param) ==
  /\ group_name \in loops
  /\ NameIn(GroupByName(t, group_name).loop_args.name, param.name)

\* whether the outward walk goes on past the scope just registered
WalkContinuesMutant(t, loops, group_name, param) == group_name[1] = "op"

WalkContinues(t, loops, group_name, param) ==
  ~StopsAtLoop(t, loops, group_name, param)

RECURSIVE WalkOutward(_, _, _, _, _, _)
\* "for group_name in op_groups[op.name][::-1]" with its break.
WalkOutward(t, loops, inputs, param, rpath, i) ==
  IF i > Len(rpath) THEN inputs
  ELSE LET in1 == AddEntry(inputs, rpath[i], Entry(param, None))
       IN IF WalkContinues(t, loops, rpath[i], param)
          THEN WalkOutward(t, loops, in1, param, rpath, i + 1)
          ELSE in1

\* One consumed parameter of an op (lines 309-349).  st = [err, inputs, outputs].
ResolveOpParam(c, st, op, param) ==
  IF st.err # "" \/ Truthy(param.value) THEN st
  ELSE IF param.op_name # None
  THEN IF param.op_name \notin OpNames(c.t) THEN [st EXCEPT !.err = "KeyError"]
       ELSE LET ua == GetUncommonAncestors(c.op_groups, c.opsgroup_groups,
                                           param.op_name, op.name)
            IN IF ua.err THEN [st EXCEPT !.err = "ValueError"]
               ELSE IF ua.group2 # << >> /\ ua.group1 = << >>
               THEN [st EXCEPT !.err = "IndexError"]
               ELSE [st EXCEPT
                      !.inputs = AddDownstream(@, param, ua.group1, ua.group2, 1, FALSE),
                      !.outputs = AddUpstream(@, param, ua.group1, 1)]
  ELSE IF ~op.is_exit_handler
  THEN [st EXCEPT !.inputs =
          WalkOutward(c.t, c.loops, @, param, Reverse(c.op_groups[op.name]), 1)]
  ELSE st

\* op.inputs + list(condition_params[op.name])
ConsumedParams(c, op) ==
  LET refs == RefsToSeq(Get(c.condition_params, op.name), c.order)
  IN op.inputs \o [j \in 1..Len(refs) |-> CondParam(c.t, refs[j])]

RECURSIVE ResolveOpParams(_, _, _, _, _)
ResolveOpParams(c, st, op, params, j) ==
  IF j > Len(params) THEN st
  ELSE ResolveOpParams(c, ResolveOpParam(c, st, op, params[j]), op, params, j + 1)

RECURSIVE ResolveOps(_, _, _)
\* "for op in pipeline.ops.values()" (lines 306-349)
ResolveOps(c, st, i) ==
  IF i > NumOps THEN st
  ELSE ResolveOps(c,
         ResolveOpParams(c, st, c.t.ops[i], ConsumedParams(c, c.t.ops[i]), 1),
         i + 1)

RECURSIVE AddOnPath(_, _, _, _)
\* "for g in op_groups[group.name]: inputs[g].add((param, None))"
AddOnPath(inputs, param, path, i) ==
  IF i > Len(path) THEN inputs
  ELSE AddOnPath(AddEntry(inputs, path[i], Entry(param, None)), param, path, i + 1)

\* One parameter of a recursive opsgroup (lines 360-384).
ResolveAliasParam(c, st, group, param, is_condition_param) ==
  IF st.err # "" \/ Truthy(param.value) THEN st
  ELSE IF param.op_name # None
  THEN IF param.op_name \notin OpNames(c.t) THEN [st EXCEPT !.err = "KeyError"]
       ELSE LET ua == GetUncommonAncestors(c.op_groups, c.opsgroup_groups,
                                           param.op_name, group.name)
            IN IF ua.err THEN [st EXCEPT !.err = "ValueError"]
               ELSE IF ua.group2 # << >> /\ ua.group1 = << >>
               THEN [st EXCEPT !.err = "IndexError"]
               ELSE [st EXCEPT
                      !.inputs = AddDownstream(@, param, ua.group1, ua.group2, 1,
                                               is_condition_param),
                      !.outputs = AddUpstream(@, param, ua.group1, 1)]
  ELSE IF ~is_condition_param
  THEN [st EXCEPT !.inputs = AddOnPath(@, param, c.op_groups[group.name], 1)]
  ELSE st

RECURSIVE ResolveAliasParams(_, _, _, _, _)
\* params = [(param, False) for param in group.inputs] + [(param, True) for
\* param in condition_params[group.name]]; j walks the list.
ResolveAliasParams(c, st, group, params, j) ==
  IF j > Len(params) THEN st
  ELSE ResolveAliasParams(c,
         ResolveAliasParam(c, st, group, params[j], j > Len(group.inputs)),
         group, params, j + 1)

RECURSIVE ResolveRecursiveOpsgroup(_, _, _, _)
\* _get_inputs_outputs_recursive_opsgroup on the k-th and later child groups
\* of the group named n.
ResolveRecursiveOpsgroup(c, st, n, k) ==
  LET gs == ChildGroups(c.t, n)
  IN IF k > Len(gs) THEN st
     ELSE LET g == c.t.groups[gs[k]]
              own == IF IsAlias(g)
                     THEN ResolveAliasParams(c, st, g, ConsumedParams(c, g), 1)
                     ELSE st
          IN ResolveRecursiveOpsgroup(c,
               ResolveRecursiveOpsgroup(c, own, g.name, 1), n, k + 1)

\* lines 390-401: a loop directly inside a subgraph group whose items come
\* from a task output registers that output on the subgraph.
SubgraphInputs(c, inputs) ==
  LET hit == {n \in DOMAIN c.opsgroup_groups :
                /\ n \in c.loops
                /\ LET path == c.opsgroup_groups[n]
                   IN path[Len(path) - 1][1] = "subgraph"
                /\ GroupByName(c.t, n).items_is_pipeline_param
                /\ GroupByName(c.t, n).items_param.op_name # None}
      parentOf(n) == c.opsgroup_groups[n][Len(c.opsgroup_groups[n]) - 1]
      add(n) == LET pp == GroupByName(c.t, n).items_param IN Entry(pp, pp.op_name)
  IN [x \in (DOMAIN inputs) \cup {parentOf(n) : n \in hit} |->
       LET new == {add(n) : n \in {m \in hit : parentOf(m) = x}}
           old == Get(inputs, x)
       IN old \cup {e \in new : ~\E o \in old :
                      ParamKey(o.param) = ParamKey(e.param) /\ o.src = e.src}]

\* _get_inputs_outputs after the type pass; c.t is the tree with the types
\* unified.  The result is [err, inputs, outputs].
GetInputsOutputs(c) ==
  LET st0 == [err |-> "", inputs |-> EmptyDict, outputs |-> EmptyDict]
      st1 == ResolveOps(c, st0, 1)
      st2 == ResolveRecursiveOpsgroup(c, st1, c.t.root, 1)
  IN IF st2.err # "" THEN [st2 EXCEPT !.inputs = EmptyDict, !.outputs = EmptyDict]
     ELSE [st2 EXCEPT !.inputs = SubgraphInputs(c, @)]

(***************************************************************************)
(* Dependency resolver.                                                    *)
(***************************************************************************)
\* the producing-op names of a list of parameters ("if param.op_name")
ProducerNames(params) ==
  {params[j].op_name : j \in {k \in 1..Len(params) : params[k].op_name # None}}

\* the first uncommon ancestor on the upstream side
UpstreamEndMutant(ua) == Last(ua.group1)

UpstreamEnd(ua) == ua.group1[1]

\* One upstream name of a downstream entity (lines 441-452 and 465-475).
\* st = [err, dependencies].
AddDependency(c, st, upstream_name, downstream_name) ==
  IF st.err # "" THEN st
  ELSE IF upstream_name \notin OpNames(c.t) /\ upstream_name \notin SeqToSet(c.opsgroups)
  THEN [st EXCEPT !.err = "ValueError"]
  ELSE LET ua == GetUncommonAncestors(c.op_groups, c.opsgroup_groups,
                                      upstream_name, downstream_name)
       IN IF ua.err THEN [st EXCEPT !.err = "ValueError"]
          ELSE IF ua.group1 = << >> \/ ua.group2 = << >>
          THEN [st EXCEPT !.err = "IndexError"]
          ELSE [st EXCEPT !.dependencies =
                  Put(@, ua.group2[1], Get(@, ua.group2[1]) \cup {UpstreamEnd(ua)})]

RECURSIVE AddDependencies(_, _, _, _)
AddDependencies(c, st, upstream_names, downstream_name) ==
  IF upstream_names = << >> THEN st
  ELSE AddDependencies(c,
         AddDependency(c, st, Head(upstream_names), downstream_name),
         Tail(upstream_names), downstream_name)

\* the upstream names of an op: producers of its consumed parameters and its
\* dependent_names.
OpUpstreamNames(c, op) ==
  ProducerNames(ConsumedParams(c, op)) \cup op.dependent_names

RECURSIVE OpDependencies(_, _, _)
\* "for op in pipeline.ops.values()" (lines 434-452)
OpDependencies(c, st, i) ==
  IF i > NumOps THEN st
  ELSE OpDependencies(c,
         AddDependencies(c, st,
           NamesToSeq(OpUpstreamNames(c, c.t.ops[i]), c.order), c.t.ops[i].name),
         i + 1)

\* the upstream names of a group: its dependencies and, for a recursive
\* opsgroup, the producers of its inputs and condition parameters.
GroupUpstreamNamesMutant(c, g) ==
  IF IsAlias(g) THEN ProducerNames(ConsumedParams(c, g)) ELSE {}

GroupUpstreamNames(c, g) ==
  g.dependencies \cup (IF IsAlias(g) THEN ProducerNames(ConsumedParams(c, g)) ELSE {})

RECURSIVE GroupDependencies(_, _, _, _)
\* _get_dependency_opsgroup on the k-th and later child groups of the group
\* named n (the root group itself has no dependencies).
GroupDependencies(c, st, n, k) ==
  LET gs == ChildGroups(c.t, n)
  IN IF k > Len(gs) THEN st
     ELSE LET g == c.t.groups[gs[k]]
              own == AddDependencies(c, st,
                       NamesToSeq(GroupUpstreamNames(c, g), c.order), g.name)
          IN GroupDependencies(c, GroupDependencies(c, own, g.name, 1), n, k + 1)

\* _get_dependencies: [err, dependencies].
GetDependencies(c) ==
  LET st0 == [err |-> "", dependencies |-> EmptyDict]
      st2 == GroupDependencies(c, OpDependencies(c, st0, 1), c.t.root, 1)
  IN IF st2.err # "" THEN [st2 EXCEPT !.dependencies = EmptyDict] ELSE st2

(***************************************************************************)
(* The IR (pipeline_spec_pb2).  A component holds its declared inputs and  *)
(* outputs and a dag of task specs; a protobuf map read at a missing key   *)
(* yields, and inserts, an empty message.                                  *)
(***************************************************************************)
_LOOP_ITERATOR_COMPONENT_NAME_SUFFIX == "-iterator"

\* dsl_utils.sanitize_task_name / sanitize_component_name: a fixed prefix
SanitizeTaskName(n) == <<"task", n>>
SanitizeComponentName(n) == <<"comp", n>>
\* dsl_utils.remove_task_name_prefix
RemoveTaskNamePrefix(tn) == tn[2]

\* PipelineParam.full_name: '<op_name>-<name>', or the name alone.  An input
\* name is a full name behind a number of 'pipelineparam--' prefixes.
FullName(p) == [prefix |-> 0, op_name |-> p.op_name, name |-> p.name]
\* dsl_component_spec.additional_input_name_for_pipelineparam
AdditionalInputName(full_name) == [full_name EXCEPT !.prefix = @ + 1]
NoInput == [prefix |-> 0, op_name |-> None, name |-> << >>]
\* the name '<loop name>-iterator'
IteratorBaseName(n) == <<n[1] \o _LOOP_ITERATOR_COMPONENT_NAME_SUFFIX, n[2]>>

\* type_utils.is_parameter_type: a missing type is no parameter type
IsParameterType(ty) == ty \in {"String", "Integer"}

RootKey == <<"root", None>>

EmptyComponent ==
  [in_params |-> {}, in_artifacts |-> {}, out_artifacts |-> EmptyDict,
   tasks |-> EmptyDict, dag_outputs |-> EmptyDict, executor_label |-> None]

NoIterator == [set |-> FALSE, raw |-> << >>, input_parameter |-> NoInput,
               item_input |-> NoInput]

EmptyTaskSpec ==
  [name |-> None, component_ref |-> None, inputs |-> EmptyDict,
   dependent_tasks |-> << >>, trigger |-> << >>, iterator |-> NoIterator]

\* TaskInputsSpec.InputParameterSpec / InputArtifactSpec: one of a component
\* input, a task output or a constant
ComponentInput(n, art) ==
  [kind |-> "component_input", component_input |-> n, producer_task |-> None,
   output_key |-> << >>, constant |-> "", selector |-> "", is_artifact |-> art]
TaskOutput(task, key, art) ==
  [kind |-> "task_output", component_input |-> NoInput, producer_task |-> task,
   output_key |-> key, constant |-> "", selector |-> "", is_artifact |-> art]
RuntimeValue(v) ==
  [kind |-> "runtime_value", component_input |-> NoInput, producer_task |-> None,
   output_key |-> << >>, constant |-> v, selector |-> "", is_artifact |-> FALSE]

EmptyIR == [root |-> EmptyComponent, components |-> EmptyDict,
            deployment_spec |-> EmptyDict]

GetComp(ir, key) ==
  IF key = RootKey THEN ir.root
  ELSE IF key \in DOMAIN ir.components THEN ir.components[key] ELSE EmptyComponent
SetComp(ir, key, c) ==
  IF key = RootKey THEN [ir EXCEPT !.root = c]
  ELSE [ir EXCEPT !.components = Put(@, key, c)]

(***************************************************************************)
(* What the emitter is handed by the rest of the SDK: the task spec an op  *)
(* carries, and the helpers of kfp.dsl.component_spec and kfp.dsl._for_loop*)
(***************************************************************************)
\* op.task_spec as the component bridge builds it: a constant, the output of
\* the producing task, or the component input of the parameter's name
OpTaskSpec(op) ==
  [EmptyTaskSpec EXCEPT
     !.name = SanitizeTaskName(op.name),
     !.component_ref = SanitizeComponentName(op.human_name),
     !.inputs = [k \in {<<"in", j>> : j \in 1..Len(op.inputs)} |->
       LET q == op.inputs[k[2]]
           art == q.param_type \notin {"None", "String", "Integer"}
       IN IF Truthy(q.value) THEN RuntimeValue(q.value)
          ELSE IF q.op_name # None
          THEN TaskOutput(SanitizeTaskName(q.op_name), q.name, art)
          ELSE ComponentInput(FullName(q), art)]]

\* op.component_spec: its artifact outputs (name -> schema title) and label
OpComponentSpec(op) ==
  [EmptyComponent EXCEPT !.out_artifacts = op.out_artifacts,
                         !.executor_label = op.executor_label]

\* the type the input builders see: a loop argument without a type is a
\* String parameter
InputType(q) ==
  IF q.param_type = "None"
     /\ (\E j \in 1..Len(q.name) : q.name[j] \in {"loop-item-param", "loop-item"})
  THEN "String" ELSE q.param_type

\* dsl_component_spec.build_component_inputs_spec
BuildComponentInputsSpec(comp, params, is_root_component) ==
  LET nm(q) == IF is_root_component THEN FullName(q) ELSE AdditionalInputName(FullName(q))
      parameters == {nm(q) : q \in {x \in params : IsParameterType(InputType(x))}}
  IN [comp EXCEPT
       !.in_params = @ \cup parameters,
       !.in_artifacts = @ \cup
          ({nm(q) : q \in {x \in params : ~IsParameterType(InputType(x))}}
           \ (comp.in_params \cup parameters))]

\* dsl_component_spec.build_task_inputs_spec
BuildTaskInputsSpec(task, params, tasks_in_current_dag, is_parent_component_root) ==
  LET nm(q) == AdditionalInputName(FullName(q))
      spec(q) ==
        IF q.op_name # None /\ SanitizeTaskName(q.op_name) \in tasks_in_current_dag
        THEN TaskOutput(SanitizeTaskName(q.op_name), q.name,
                        ~IsParameterType(InputType(q)))
        ELSE ComponentInput(IF is_parent_component_root THEN FullName(q) ELSE nm(q),
                            ~IsParameterType(InputType(q)))
  IN [task EXCEPT !.inputs =
       [k \in (DOMAIN @) \cup {nm(q) : q \in params} |->
          IF \E q \in params : nm(q) = k
          THEN spec(CHOOSE q \in params : nm(q) = k)
          ELSE @[k]]]

\* dsl_component_spec.update_task_inputs_spec: an input whose producer is no
\* task of the current dag, or whose component input the parent does not
\* declare under that name, is rewired to the parent's forwarded input;
\* failed is the assertion that the parent declares it.
UpdatedInput(inp, parent, tasks_in_current_dag) ==
  LET declared == IF inp.is_artifact THEN parent.in_artifacts ELSE parent.in_params
  IN IF inp.kind = "task_output" /\ inp.producer_task \notin tasks_in_current_dag
     THEN ComponentInput(
            AdditionalInputName([prefix |-> 0,
                                 op_name |-> RemoveTaskNamePrefix(inp.producer_task),
                                 name |-> inp.output_key]), inp.is_artifact)
     ELSE IF inp.kind = "component_input" /\ inp.component_input \notin declared
     THEN [inp EXCEPT !.component_input = AdditionalInputName(@)]
     ELSE inp

UpdateTaskInputsSpec(task, parent, tasks_in_current_dag) ==
  [task EXCEPT !.inputs =
     [k \in DOMAIN @ |-> UpdatedInput(@[k], parent, tasks_in_current_dag)]]

UpdateTaskInputsFails(task, parent, tasks_in_current_dag) ==
  \E k \in DOMAIN task.inputs :
    LET new == UpdatedInput(task.inputs[k], parent, tasks_in_current_dag)
    IN /\ new # task.inputs[k]
       /\ new.component_input \notin
            (IF new.is_artifact THEN parent.in_artifacts ELSE parent.in_params)

\* LoopArguments.name_is_withitems_loop_argument, name_is_withparams_loop_argument,
\* LoopArgumentVariable.name_is_loop_arguments_variable and get_subvar_name,
\* on the name '<op_name>-<name>' or '<name>'
IsWithItemsLoopArgument(n) == n.op_name = None /\ Len(n.name) > 0 /\ n.name[1] = "loop-item-param"
IsWithParamsLoopArgument(n) ==
  ~IsWithItemsLoopArgument(n) /\ \E j \in 1..Len(n.name) : n.name[j] = "loop-item"
IsLoopArgumentsVariable(n) == \E j \in 1..Len(n.name) - 1 : n.name[j] = "subvar"
GetSubvarName(n) == n.name[(CHOOSE j \in 1..Len(n.name) - 1 : n.name[j] = "subvar") + 1]

\* dsl_component_spec.pop_input_from_component_spec
PopInput(comp, n) == [comp EXCEPT !.in_params = @ \ {n}, !.in_artifacts = @ \ {n}]

(***************************************************************************)
(* Scope-to-IR emitter: loop lowering.                                     *)
(***************************************************************************)
\* the items a static loop embeds: json.dumps keeps the list's order
\* the text of one raw value
ItemText(v) == <<"0", "1", "2", "3", "4", "5", "6", "7", "8", "9">>[v + 1]

RECURSIVE JsonItems(_)
JsonItems(items) ==
  IF items = << >> THEN << >>
  ELSE IF Len(items) = 1 THEN <<ItemText(items[1])>>
  ELSE <<ItemText(Head(items)), ", ">> \o JsonItems(Tail(items))

\* json.dumps of the list of raw values: the text, token by token
JsonDumps(items) == <<"[">> \o JsonItems(items) \o <<"]">>

\* the name under which a loop's iterator declares the per-iteration value
IteratorItemInput(subgroup) ==
  LET input_parameter_name ==
        IF subgroup.items_is_pipeline_param
        THEN AdditionalInputName(FullName(subgroup.items_param))
        ELSE AdditionalInputName(FullName(subgroup.loop_args))
  IN IF subgroup.items_is_pipeline_param
     THEN [input_parameter_name EXCEPT !.name = @ \o <<"loop-item">>]
     ELSE input_parameter_name

\* _insert_loop_iterator_component: es = [ir, comp, ...]; the iterator
\* component is written to the component table and its task spec is put in
\* the loop's own component spec.
InsertLoopIteratorComponent(ir, subgroup, subgroup_component_spec) ==
  LET input_parameter_name ==
        IF subgroup.items_is_pipeline_param
        THEN AdditionalInputName(FullName(subgroup.items_param))
        ELSE AdditionalInputName(FullName(subgroup.loop_args))
      base == IteratorBaseName(subgroup.name)
      copied == [EmptyComponent EXCEPT
                   !.in_params = subgroup_component_spec.in_params,
                   !.in_artifacts = subgroup_component_spec.in_artifacts]
      loop_iterator_component_spec ==
        IF subgroup.items_is_pipeline_param
        THEN [PopInput(copied, input_parameter_name) EXCEPT
                !.in_params = @ \cup {IteratorItemInput(subgroup)}]
        ELSE [copied EXCEPT !.in_params = @ \cup {input_parameter_name}]
      iterator ==
        IF subgroup.items_is_pipeline_param
        THEN [set |-> TRUE, raw |-> << >>, input_parameter |-> input_parameter_name,
              item_input |-> IteratorItemInput(subgroup)]
        ELSE [set |-> TRUE, raw |-> JsonDumps(subgroup.items),
              input_parameter |-> NoInput, item_input |-> input_parameter_name]
      first == IF subgroup.items_is_pipeline_param
               THEN {input_parameter_name} ELSE {}
      forwarded == first \cup (loop_iterator_component_spec.in_params \ {iterator.item_input})
      loop_iterator_task_spec ==
        [EmptyTaskSpec EXCEPT
           !.name = SanitizeTaskName(base),
           !.component_ref = SanitizeComponentName(base),
           !.iterator = iterator,
           !.inputs = [k \in forwarded |-> ComponentInput(k, FALSE)]]
  IN [ir |-> [ir EXCEPT !.components =
                Put(@, SanitizeComponentName(base), loop_iterator_component_spec)],
      comp |-> [subgroup_component_spec EXCEPT
                  !.tasks = Put(@, SanitizeTaskName(base), loop_iterator_task_spec)]]

\* the loop-argument name an input of a loop child refers to
LoopArgumentName(inp) ==
  IF inp.kind = "component_input" THEN inp.component_input
  ELSE [prefix |-> 0,
        op_name |-> IF inp.kind = "task_output"
                    THEN RemoveTaskNamePrefix(inp.producer_task) ELSE None,
        name |-> inp.output_key]

\* the input the iteration value of the enclosing loop is read from
LoopValueInput(group) ==
  IF group.items_is_pipeline_param
  THEN AdditionalInputName([FullName(group.items_param) EXCEPT
                              !.name = @ \o <<"loop-item">>])
  ELSE AdditionalInputName(FullName(group.loop_args))

\* One input of a child of the loop group (lines 618-669).
UpdatedLoopInput(group, inp) ==
  LET n == LoopArgumentName(inp)
      rewired ==
        IF IsWithParamsLoopArgument(n) \/ IsWithItemsLoopArgument(n)
        THEN [ComponentInput(LoopValueInput(group), FALSE) EXCEPT
                !.selector = inp.selector]
        ELSE inp
  IN IF inp.is_artifact THEN inp
     ELSE IF IsLoopArgumentsVariable(n)
     THEN [rewired EXCEPT !.selector = GetSubvarName(n)]
     ELSE rewired

\* _update_loop_subgroup_specs
UpdateLoopSubgroupSpecs(group, task) ==
  [task EXCEPT !.inputs = [k \in DOMAIN @ |-> UpdatedLoopInput(group, @[k])]]

\* its "assert group.items_is_pipeline_param"
UpdateLoopSubgroupFails(group, task) ==
  \E k \in DOMAIN task.inputs :
    /\ ~task.inputs[k].is_artifact
    /\ IsWithParamsLoopArgument(LoopArgumentName(task.inputs[k]))
    /\ ~group.items_is_pipeline_param

(***************************************************************************)
(* Scope-to-IR emitter: _group_to_dag_spec.  The emitter state es holds    *)
(* the pipeline spec ir, the deployment config's executors, the key cur of *)
(* the component that group_component_spec refers to, and the exception.   *)
(***************************************************************************)
\* _resolve_value_or_reference; an artifact operand raises
ResolveValueOrReference(operand) ==
  IF operand.is_param
  THEN [ref |-> TRUE, input_name |-> AdditionalInputName(FullName(operand.param)),
        value_field |-> IF operand.param.param_type = "Integer"
                        THEN "int_value" ELSE "string_value",
        text |-> ""]
  ELSE [ref |-> FALSE, input_name |-> NoInput, value_field |-> "",
        text |-> operand.literal]

\* no operand is rejected
ResolveValueOrReferenceFailsMutant(operand) == FALSE

\* lines 494-504: a reference that is not of a parameter type raises
ResolveValueOrReferenceFails(operand) ==
  operand.is_param /\ ~IsParameterType(operand.param.param_type)

\* isinstance(param, (LoopArguments, LoopArgumentVariable)): the loop items
\* are the parameters that carry a loop argument's name
IsLoopArgumentObject(p) ==
  IsWithItemsLoopArgument(FullName(p)) \/ IsWithParamsLoopArgument(FullName(p))

\* insertion of a name into a sorted list, and list.sort()
RECURSIVE InsertSorted(_, _)
InsertSorted(s, n) ==
  IF s = << >> THEN <<n>>
  ELSE IF NameLess(n, Head(s)) THEN <<n>> \o s
  ELSE <<Head(s)>> \o InsertSorted(Tail(s), n)

RECURSIVE Sort(_)
Sort(s) == IF s = << >> THEN << >> ELSE InsertSorted(Sort(Tail(s)), Head(s))

\* lines 918-922: list(dependencies[name]) then sort()
GroupDependenciesListMutant(deps, order) == NamesToSeq(deps, order)

GroupDependenciesList(deps, order) == Sort(NamesToSeq(deps, order))

\* lines 798-808: an importer's task, component and executor are written first
EmitImporter(es, subgroup, task, comp) ==
  LET parent == GetComp(es.ir, es.cur)
      ir1 == SetComp(es.ir, es.cur, [parent EXCEPT !.tasks = Put(@, task.name, task)])
  IN [es EXCEPT
        !.ir = [ir1 EXCEPT !.components = Put(@, task.component_ref, comp)],
        !.executors = Put(@, comp.executor_label,
                          [kind |-> "importer", op |-> subgroup.name])]

\* the container takes precedence over the custom job
EmitExecutorContainerFirst(executors, subgroup, comp) ==
  LET kind == IF subgroup.container_spec THEN "container" ELSE "custom_job"
  IN IF (subgroup.custom_job_spec \/ subgroup.container_spec)
        /\ comp.executor_label \notin DOMAIN executors
     THEN Put(executors, comp.executor_label, [kind |-> kind, op |-> subgroup.name])
     ELSE executors

\* an executor is registered only in an empty registry
EmitExecutorMutant(executors, subgroup, comp) ==
  LET kind == IF subgroup.custom_job_spec THEN "custom_job" ELSE "container"
  IN IF (subgroup.custom_job_spec \/ subgroup.container_spec)
        /\ DOMAIN executors = {}
     THEN Put(executors, comp.executor_label, [kind |-> kind, op |-> subgroup.name])
     ELSE executors

\* lines 933-951: a custom job takes precedence over the container; a label
\* that has an executor keeps it
EmitExecutor(executors, subgroup, comp) ==
  LET kind == IF subgroup.custom_job_spec THEN "custom_job" ELSE "container"
  IN IF (subgroup.custom_job_spec \/ subgroup.container_spec)
        /\ comp.executor_label \notin DOMAIN executors
     THEN Put(executors, comp.executor_label, [kind |-> kind, op |-> subgroup.name])
     ELSE executors

\* only graph components are rejected
UnsupportedSubgroupMutant(is_op, subgroup) == ~is_op /\ subgroup.type = "graph"

\* lines 790-796: graph components and exit handlers are not supported
UnsupportedSubgroup(is_op, subgroup) ==
  ~is_op /\ subgroup.type \in {"graph", "exit_handler"}

\* One pass of the loop over subgroups (lines 764-951).
EmitSubgroup(inputs, dependencies, order, es, group, tasks_in_current_dag, is_op, subgroup) ==
  LET is_loop_subgroup == group.type = "for_loop"
      is_recursive_subgroup == ~is_op /\ IsAlias(subgroup)
      subgroup_key == IF is_recursive_subgroup THEN subgroup.recursive_ref
                      ELSE subgroup.name
      task0 == IF is_op THEN OpTaskSpec(subgroup) ELSE EmptyTaskSpec
      comp0 == IF is_op THEN OpComponentSpec(subgroup) ELSE EmptyComponent
      subgroup_component_name ==
        IF task0.component_ref # None THEN task0.component_ref
        ELSE SanitizeComponentName(IF is_op THEN subgroup.human_name ELSE subgroup_key)
      task1 == [task0 EXCEPT
                  !.name = IF @ # None THEN @ ELSE SanitizeTaskName(subgroup_key),
                  !.component_ref = subgroup_component_name]
      unsupported == UnsupportedSubgroup(is_op, subgroup)
      es1 == IF is_op /\ subgroup.importer_spec
             THEN EmitImporter(es, subgroup, task1, comp0) ELSE es
      \* lines 810-819
      cur == IF is_loop_subgroup
             THEN SanitizeComponentName(IteratorBaseName(group.name)) ELSE es1.cur
      ir2 == SetComp(es1.ir, cur, GetComp(es1.ir, cur))
      loop_failed == is_loop_subgroup /\ UpdateLoopSubgroupFails(group, task1)
      task2 == IF is_loop_subgroup THEN UpdateLoopSubgroupSpecs(group, task1) ELSE task1
      \* lines 821-837
      subgroup_params == {e.param : e \in Get(inputs, subgroup.name)}
      parent == GetComp(ir2, cur)
      is_parent_component_root == parent = ir2.root
      \* lines 839-848
      update_failed == is_op /\ UpdateTaskInputsFails(task2, parent, tasks_in_current_dag)
      task3 == IF is_op THEN UpdateTaskInputsSpec(task2, parent, tasks_in_current_dag)
               ELSE task2
      \* lines 850-886
      is_parallel_for == ~is_op /\ subgroup.type = "for_loop"
      plain == {q \in subgroup_params : ~IsLoopArgumentObject(q)}
      loop_subgroup_params ==
        IF subgroup.items_is_pipeline_param
        THEN {q \in plain : ParamKey(q) # ParamKey(subgroup.items_param)}
             \cup {subgroup.items_param}
        ELSE plain
      is_condition == ~is_op /\ subgroup.type = "condition"
      punched == IF is_parallel_for THEN loop_subgroup_params ELSE subgroup_params
      comp4 == IF is_parallel_for \/ is_condition
               THEN BuildComponentInputsSpec(comp0, punched, FALSE) ELSE comp0
      task4 == IF is_parallel_for \/ is_condition
               THEN BuildTaskInputsSpec(task3, punched, tasks_in_current_dag,
                                        is_parent_component_root)
               ELSE task3
      ins == IF is_parallel_for THEN InsertLoopIteratorComponent(ir2, subgroup, comp4)
             ELSE [ir |-> ir2, comp |-> comp4]
      \* lines 888-915
      condition_failed ==
        is_condition /\ (ResolveValueOrReferenceFails(subgroup.operand1)
                         \/ ResolveValueOrReferenceFails(subgroup.operand2))
      task5 == IF is_condition
               THEN [task4 EXCEPT !.trigger =
                       <<ResolveValueOrReference(subgroup.operand1),
                         ResolveValueOrReference(subgroup.operand2)>>]
               ELSE task4
      \* lines 917-922
      deps == GroupDependenciesList(Get(dependencies, subgroup.name), order)
      task6 == [task5 EXCEPT !.dependent_tasks =
                  @ \o [j \in 1..Len(deps) |-> SanitizeTaskName(deps[j])]]
      \* lines 924-931
      ir3 == IF subgroup_component_name \in DOMAIN ins.ir.components THEN ins.ir
             ELSE [ins.ir EXCEPT !.components = Put(@, subgroup_component_name, ins.comp)]
      ir4 == SetComp(ir3, cur, [GetComp(ir3, cur) EXCEPT
                                  !.tasks = Put(@, task6.name, task6)])
      executors == IF is_op THEN EmitExecutor(es1.executors, subgroup, ins.comp)
                   ELSE es1.executors
  IN IF es.err # "" THEN es
     ELSE IF unsupported THEN [es EXCEPT !.err = "NotImplementedError"]
     ELSE IF loop_failed \/ update_failed
     THEN [es1 EXCEPT !.ir = ir2, !.cur = cur, !.err = "AssertionError"]
     ELSE IF condition_failed
     THEN [es1 EXCEPT !.ir = ir2, !.cur = cur, !.err = "NotImplementedError"]
     ELSE [ir |-> ir4, executors |-> executors, cur |-> cur, err |-> ""]

RECURSIVE EmitSubgroups(_, _, _, _, _, _, _, _)
\* group.groups + group.ops, in that order
EmitSubgroups(t, inputs, dependencies, order, es, group, tasks_in_current_dag, k) ==
  LET gs == ChildGroups(t, group.name)
      os == ChildOps(t, group.name)
  IN IF k > Len(gs) + Len(os) THEN es
     ELSE EmitSubgroups(t, inputs, dependencies, order,
            EmitSubgroup(inputs, dependencies, order, es, group,
                         tasks_in_current_dag, k > Len(gs),
                         IF k <= Len(gs) THEN t.groups[gs[k]]
                         ELSE t.ops[os[k - Len(gs)]]),
            group, tasks_in_current_dag, k + 1)

\* io_types.Metrics.TYPE_NAME, io_types.ClassificationMetrics.TYPE_NAME
MetricsTypeNames == {"system.Metrics", "system.ClassificationMetrics"}

\* '<task name>-<output name>'
UniqueOutputName(task_name, output_name) == <<task_name, output_name>>

ArtifactSelector(task_name, output_name) ==
  [producer_subtask |-> task_name, output_artifact_key |-> output_name]

\* [pipeline_spec.root] + the components of op_to_parent_groups[op.name][1:-1],
\* reversed
ParentGroupsComponentKeysMutant(path) == <<RootKey>>

ParentGroupsComponentKeys(path) ==
  Reverse(<<RootKey>> \o [j \in 1..Len(path) - 2 |-> SanitizeComponentName(path[j + 1])])

RECURSIVE SurfaceOutput(_, _, _, _, _, _)
\* lines 715-723, for one metrics output
SurfaceOutput(ir, keys, k, task_name, output_name, schema_title) ==
  IF k > Len(keys) THEN ir
  ELSE LET c == GetComp(ir, keys[k])
           u == UniqueOutputName(task_name, output_name)
           c1 == [c EXCEPT
                    !.out_artifacts = Put(@, u, schema_title),
                    !.dag_outputs = Put(@, u,
                       (IF u \in DOMAIN @ THEN @[u] ELSE << >>)
                       \o <<ArtifactSelector(task_name, output_name)>>)]
       IN SurfaceOutput(SetComp(ir, keys[k], c1), keys, k + 1,
                        task_name, output_name, schema_title)

RECURSIVE SurfaceOutputs(_, _, _, _, _)
SurfaceOutputs(ir, keys, op, names, j) ==
  IF j > Len(names) THEN ir
  ELSE LET schema_title == op.out_artifacts[names[j]]
           ir1 == IF schema_title \in MetricsTypeNames
                  THEN SurfaceOutput(ir, keys, 1, OpTaskSpec(op).name, names[j],
                                     schema_title)
                  ELSE ir
       IN SurfaceOutputs(ir1, keys, op, names, j + 1)

\* the output names of an op, in the order of its component spec
RECURSIVE OutputNames(_)
OutputNames(S) ==
  IF S = {} THEN << >>
  ELSE LET m == CHOOSE x \in S : TRUE IN <<m>> \o OutputNames(S \ {m})

\* the lookup of every parent component inserts the missing ones
RECURSIVE TouchComponents(_, _, _)
TouchComponents(ir, keys, k) ==
  IF k > Len(keys) THEN ir
  ELSE TouchComponents(SetComp(ir, keys[k], GetComp(ir, keys[k])), keys, k + 1)

RECURSIVE PopulateMetricsInDagOutputs(_, _, _, _, _)
\* _populate_metrics_in_dag_outputs over group.ops
PopulateMetricsInDagOutputs(t, ops, k, op_to_parent_groups, ir) ==
  IF k > Len(ops) THEN ir
  ELSE LET op == t.ops[ops[k]]
           keys == ParentGroupsComponentKeys(op_to_parent_groups[op.name])
           ir1 == SurfaceOutputs(TouchComponents(ir, keys, 1), keys, op,
                                 OutputNames(DOMAIN op.out_artifacts), 1)
       IN PopulateMetricsInDagOutputs(t, ops, k + 1, op_to_parent_groups, ir1)

\* the root group as a scope record
RootGroup(t) ==
  [name |-> t.root, parent |-> None, type |-> "pipeline", recursive_ref |-> None]

ScopeByName(t, n) == IF n = t.root THEN RootGroup(t) ELSE GroupByName(t, n)

\* lines 953-961: the executors collected so far become the deployment spec,
\* then the metrics outputs of the group's ops are surfaced
FinishDagSpec(t, os, op_groups, es) ==
  IF es.err # "" THEN es
  ELSE [es EXCEPT !.ir = PopulateMetricsInDagOutputs(t, os, 1, op_groups,
                            [es.ir EXCEPT !.deployment_spec = es.executors])]

\* _group_to_dag_spec
GroupToDagSpec(c, inputs, dependencies, es, n) ==
  LET t == c.t
      group == ScopeByName(t, n)
      gs == ChildGroups(t, n)
      os == ChildOps(t, n)
      cur == IF n = t.root THEN RootKey ELSE SanitizeComponentName(n)
      es0 == [es EXCEPT !.cur = cur, !.ir = SetComp(@, cur, GetComp(@, cur))]
      tasks_in_current_dag ==
        {SanitizeTaskName(t.groups[gs[j]].name) : j \in 1..Len(gs)}
        \cup {SanitizeTaskName(t.ops[os[j]].name) : j \in 1..Len(os)}
  IN IF es.err # "" THEN es
     ELSE FinishDagSpec(t, os, c.op_groups,
                        EmitSubgroups(t, inputs, dependencies, c.order, es0, group,
                                      tasks_in_current_dag, 1))

\* lines 982-993: the empty spec with the root's declared inputs
InitialEmitState(t) ==
  [ir |-> [EmptyIR EXCEPT !.root = BuildComponentInputsSpec(@, SeqToSet(t.args), TRUE)],
   executors |-> EmptyDict, cur |-> RootKey, err |-> ""]

RECURSIVE EmitGroups(_, _, _, _, _)
\* "for opsgroup_name in opsgroups.keys()" (lines 1020-1030)
EmitGroups(c, inputs, dependencies, es, k) ==
  IF k > Len(c.opsgroups) THEN es
  ELSE EmitGroups(c, inputs, dependencies,
                  GroupToDagSpec(c, inputs, dependencies, es, c.opsgroups[k]), k + 1)

\* _create_pipeline_spec as a function of the pipeline and of the iteration
\* order of its sets: the exception raised, or the pipeline spec returned
CreatePipelineSpec(t, order) ==
  LET es0 == InitialEmitState(t)
      c0 == [t |-> t, order |-> order, opsgroups |-> GetGroups(t),
             op_groups |-> GetGroupsForOps(t),
             opsgroup_groups |-> GetGroupsForOpsgroups(t),
             condition_params |-> GetConditionParamsForOps(t),
             loops |-> GetForLoopOps(t)]
      c == [c0 EXCEPT !.t = UnifyTypes(t, c0.condition_params, order)]
      io == GetInputsOutputs(c)
      dep == GetDependencies(c)
      es == EmitGroups(c, io.inputs, dep.dependencies, es0, 1)
  IN IF io.err # "" THEN [err |-> io.err, pipeline_spec |-> EmptyIR]
     ELSE IF dep.err # "" THEN [err |-> dep.err, pipeline_spec |-> EmptyIR]
     ELSE IF es.err # "" THEN [err |-> es.err, pipeline_spec |-> EmptyIR]
     ELSE [err |-> "", pipeline_spec |-> es.ir]

(***************************************************************************)
(* The universe of scope trees.                                            *)
(***************************************************************************)
Orders == {"asc", "desc"}

Literal(v) == [is_param |-> FALSE, param |-> Param(<<"-">>, None, NoValue, "None"),
               literal |-> v]
Ref(p) == [is_param |-> TRUE, param |-> p, literal |-> ""]

\* a pipeline argument as the ops see it, and an op's output
Arg(n, ty) == Param(<<n>>, None, NoValue, ty)
Out(i, ty) == Param(<<"out">>, OpName(i), NoValue, ty)

\* LoopArguments of a loop over raw items: 'loop-item-param-<code>'
Code(i) == <<"c1", "c2", "c3", "c4">>[i]
ItemsLoopArgs(i) == Param(<<"loop-item-param", Code(i)>>, None, NoValue, "None")
\* LoopArguments.from_pipeline_param: '<param name>-loop-item', the op_name kept
ParamLoopArgs(p) == Param(p.name \o <<"loop-item">>, p.op_name, NoValue, "None")

Group(i, ty, parent, ref) ==
  [name |-> GroupName(ty, i), parent |-> parent, type |-> ty, recursive_ref |-> ref,
   operand1 |-> Literal("x"), operand2 |-> Literal("y"),
   loop_args |-> ItemsLoopArgs(i), items_is_pipeline_param |-> FALSE,
   items_param |-> Arg("-", "None"), items |-> <<1, 2, 3>>,
   dependencies |-> {}, inputs |-> << >>]

Op(i, parent, ins) ==
  [name |-> OpName(i), parent |-> parent, inputs |-> ins,
   outputs |-> <<Out(i, "String")>>, dependent_names |-> {},
   is_exit_handler |-> FALSE, out_artifacts |-> EmptyDict, human_name |-> OpName(i),
   executor_label |-> <<"exec", OpName(i)>>, container_spec |-> TRUE,
   custom_job_spec |-> FALSE, importer_spec |-> FALSE]

StructTypes == {"condition", "for_loop"}

\* The groups of a tree: group 1 lies in the root; a later group lies in the
\* root or in an earlier group that owns its subtree, and is either a group
\* of its own or a recursive reference to such an earlier group.
RECURSIVE LayoutsOver(_, _, _)
LayoutsOver(types, root, n) ==
  IF n = 0 THEN {<< >>}
  ELSE LET prev == LayoutsOver(types, root, n - 1)
           owned(gs) == {j \in 1..Len(gs) : ~IsAlias(gs[j])}
       IN UNION {
            {Append(gs, Group(n, ty, par, None)) :
               ty \in types,
               par \in {root} \cup {gs[j].name : j \in owned(gs)}}
            \cup
            {Append(gs, Group(n, gs[r].type, par, gs[r].name)) :
               r \in owned(gs),
               par \in {root} \cup {gs[j].name : j \in owned(gs)}}
            : gs \in prev}

GroupLayouts(root, n) == LayoutsOver(StructTypes, root, n)

\* the kinds of group the emitter tells apart by their type alone
EmittedTypes == {"condition", "graph", "exit_handler"}

OwnedNames(root, gs) == {root} \cup {gs[j].name : j \in {k \in 1..Len(gs) : ~IsAlias(gs[k])}}

LoopItems(gs) == {gs[j].loop_args : j \in {k \in 1..Len(gs) : gs[k].type = "for_loop"}}

\* LoopArgumentVariable: '<loop args name>-subvar-<subvar name>'
Subvar(p) == Param(p.name \o <<"subvar", "k">>, p.op_name, NoValue, "None")

Tree(root, gs, os, args) == [root |-> root, groups |-> gs, ops |-> os, args |-> args]

\* args_list_with_defaults
DefaultArgs == <<Param(<<"a">>, None, "dflt", "String")>>

\* The universe is a union of families, each varying one aspect of the tree
\* over the group layouts.
Families == {"wiring", "conditions", "attributes", "types", "loops", "metrics",
             "components", "kinds", "nested_loops", "aliases", "group_deps"}

\* a pipeline argument whose name starts with the name of the loop argument
\* of a loop over the argument a
ArgLoopItem == Param(<<"a", "loop-item">>, None, NoValue, "String")

\* the decorations a family offers for a group
GroupDecorations(fam) ==
  CASE fam = "conditions" ->
         {[o1 |-> a, o2 |-> Literal("y")] :
            a \in {Ref(Arg("a", "String")), Ref(Out(1, "String")), Ref(Out(1, "Model"))}}
         \cup {[o1 |-> Ref(Out(1, "String")), o2 |-> Ref(Arg("a", "String"))]}
    [] fam = "types" ->
         {[o1 |-> a, o2 |-> Literal("y")] :
            a \in {Literal("x"), Ref(Arg("a", "None")), Ref(Arg("a", "String"))}}
    [] fam = "loops" ->
         {[param |-> FALSE, source |-> Arg("a", "String"), items |-> <<1, 2, 3>>],
          [param |-> FALSE, source |-> Arg("a", "String"), items |-> <<2, 1, 2>>],
          [param |-> TRUE, source |-> Arg("a", "String"), items |-> << >>],
          [param |-> TRUE, source |-> Out(1, "String"), items |-> << >>]}
    [] fam = "aliases" ->
         \* the operand of a condition group, the declared inputs of an alias
         {[o1 |-> a, ins |-> ins] :
            a \in {Ref(Arg("a", "String")), Ref(Out(1, "String"))},
            ins \in {<< >>, <<Arg("a", "String")>>, <<Out(1, "String")>>,
                     <<Out(2, "String")>>, <<Param(<<"c">>, None, "lit", "String")>>,
                     <<ItemsLoopArgs(1)>>}}
    [] fam = "group_deps" ->
         \* the declared dependencies of a group: a task, a group, an unknown name
         {{}, {OpName(1)}, {GroupName("condition", 1)}, {<<"ghost", 1>>}}
    [] fam = "nested_loops" ->
         {[param |-> FALSE, source |-> Arg("a", "String"), items |-> <<1, 2, 3>>],
          [param |-> TRUE, source |-> Arg("a", "String"), items |-> << >>],
          [param |-> TRUE, source |-> ArgLoopItem, items |-> << >>]}
    [] OTHER -> {0}

Decorate(fam, g, d) ==
  CASE fam \in {"conditions", "types"} /\ g.type = "condition" ->
         [g EXCEPT !.operand1 = d.o1, !.operand2 = d.o2]
    [] fam = "group_deps" -> [g EXCEPT !.dependencies = d \ {g.name}]
    [] fam = "aliases" ->
         IF IsAlias(g) THEN [g EXCEPT !.inputs = d.ins]
         ELSE IF g.type = "condition"
         THEN [g EXCEPT !.operand1 = d.o1, !.operand2 = Literal("y")]
         ELSE g
    [] fam \in {"loops", "nested_loops"} /\ g.type = "for_loop" /\ d.param ->
         [g EXCEPT !.items_is_pipeline_param = TRUE, !.items_param = d.source,
                   !.loop_args = ParamLoopArgs(d.source), !.items = << >>]
    [] fam \in {"loops", "nested_loops"} /\ g.type = "for_loop" /\ ~d.param ->
         [g EXCEPT !.items = d.items]
    [] OTHER -> g

\* the layouts a family is built over
FamilyLayouts(fam, root) ==
  IF fam \in {"types", "components"}
  THEN {gs \in GroupLayouts(root, NumGroups) :
          \A j \in 1..Len(gs) : gs[j].type = "condition" /\ ~IsAlias(gs[j])}
  ELSE IF fam = "kinds"
  THEN {gs \in LayoutsOver(EmittedTypes, root, NumGroups) :
          \A j \in 1..Len(gs) : ~IsAlias(gs[j])}
  ELSE IF fam = "loops"
  THEN {gs \in GroupLayouts(root, NumGroups) : gs[1].type = "for_loop"}
  ELSE IF fam = "aliases"
  THEN {gs \in GroupLayouts(root, NumGroups) :
          \A j \in 2..Len(gs) : IsAlias(gs[j])}
  ELSE IF fam = "group_deps"
  THEN LayoutsOver({"condition"}, root, NumGroups)
  ELSE IF fam = "nested_loops"
  THEN {gs \in GroupLayouts(root, NumGroups) :
          \A j \in 1..Len(gs) :
            /\ gs[j].type = "for_loop" /\ ~IsAlias(gs[j])
            /\ gs[j].parent = IF j = 1 THEN root ELSE gs[j - 1].name}
  ELSE GroupLayouts(root, NumGroups)

FamilyGroups(fam, root) ==
  UNION {{[j \in 1..Len(gs) |-> Decorate(fam, gs[j], d[j])] :
            d \in [1..Len(gs) -> GroupDecorations(fam)]}
         : gs \in FamilyLayouts(fam, root)}

\* an op of its own component, run by its container
Plain(ins) == [ins |-> ins, exit |-> FALSE, deps |-> {}, arts |-> EmptyDict,
               kind |-> "container", component |-> 0]

\* what the i-th op of a tree of the family consumes, and its attributes
FamilyRecipes(fam, gs, i) ==
  CASE fam = "wiring" ->
         {Plain(ins) : ins \in
            {<< >>, <<Arg("a", "String")>>}
            \cup {<<Out(j, "String")>> : j \in OpIds \ {i}}
            \cup {<<p>> : p \in LoopItems(gs)}}
    [] fam = "attributes" /\ i > 1 ->
         {Plain(ins) : ins \in
            {<<Arg("a", "String")>>,
             <<Param(<<"c">>, None, "lit", "String")>>,
             <<Param(<<"c">>, None, "", "String")>>,
             <<Param(<<"out">>, <<"op", 0>>, NoValue, "String")>>}}
         \cup {[Plain(ins) EXCEPT !.deps = d] :
                 ins \in {<< >>, <<Out(1, "String")>>},
                 d \in {{OpName(1)}, {gs[1].name}, {<<"ghost", 1>>},
                        {OpName(1), gs[1].name}}}
         \cup {[Plain(ins) EXCEPT !.exit = TRUE] :
                 ins \in {<< >>, <<Arg("a", "String")>>}}
    [] fam = "types" ->
         {Plain(ins) : ins \in
            {<<Arg("a", ty)>> : ty \in {"None", "String", "Integer"}}
            \cup (IF i > 1 THEN {<<Out(1, ty)>> : ty \in {"None", "String"}} ELSE {})}
    [] fam \in {"loops", "nested_loops"} /\ i > 1 ->
         {Plain(ins) : ins \in
            {<< >>, <<Arg("a", "String")>>}
            \cup {<<p>> : p \in LoopItems(gs)}
            \cup {<<Subvar(p)>> : p \in LoopItems(gs)}}
    [] fam = "aliases" /\ i > 1 ->
         {Plain(ins) : ins \in {<< >>, <<Out(1, "String")>>}}
    [] fam = "metrics" ->
         {[Plain(<< >>) EXCEPT !.arts = a] : a \in
            {EmptyDict, [x \in {"metrics"} |-> "system.Metrics"]}
            \cup (IF i = 1
                  THEN {[x \in {"metrics", "model"} |->
                           IF x = "model" THEN "system.Model"
                           ELSE "system.ClassificationMetrics"]}
                  ELSE {})}
    [] fam = "components" ->
         \* the executor of the op, and the op whose component it instantiates
         {[Plain(<< >>) EXCEPT !.kind = k, !.component = c,
                               !.arts = IF i = 1 THEN EmptyDict
                                        ELSE [x \in {"model"} |-> "system.Model"]] :
            k \in {"container", "custom_job", "importer"},
            c \in IF i = 1 THEN {0} ELSE {0, 1}}
    [] OTHER -> {Plain(<< >>)}

FamilyParents(fam, root, gs, i) ==
  IF fam = "types" \/ (fam \in {"loops", "nested_loops", "group_deps"} /\ i = 1) THEN {root}
  ELSE OwnedNames(root, gs)

FamilyOps(fam, root, gs, i) ==
  {[Op(i, par, r.ins) EXCEPT
      !.is_exit_handler = r.exit, !.dependent_names = r.deps,
      !.out_artifacts = r.arts,
      !.human_name = IF r.component = 0 THEN @ ELSE OpName(r.component),
      !.executor_label = IF r.component = 0 THEN @
                         ELSE <<"exec", OpName(r.component)>>,
      !.custom_job_spec = (r.kind = "custom_job"),
      !.importer_spec = (r.kind = "importer")] :
     par \in FamilyParents(fam, root, gs, i), r \in FamilyRecipes(fam, gs, i)}

RECURSIVE OpLayouts(_, _, _, _)
OpLayouts(fam, root, gs, n) ==
  IF n = 0 THEN {<< >>}
  ELSE {Append(os, o) : os \in OpLayouts(fam, root, gs, n - 1),
                        o \in FamilyOps(fam, root, gs, n)}

\* the pipeline arguments: typed, or untyped when the signature has no
\* annotation
FamilyArgs(fam) ==
  IF fam = "types"
  THEN {DefaultArgs, <<Param(<<"a">>, None, "dflt", "None")>>}
  ELSE IF fam = "nested_loops"
  THEN {DefaultArgs \o <<Param(<<"a", "loop-item">>, None, "dflt", "String")>>}
  ELSE {DefaultArgs}

FamilyTrees(fam, root) ==
  UNION {{Tree(root, gs, os, args) :
            os \in OpLayouts(fam, root, gs, NumOps), args \in FamilyArgs(fam)}
         : gs \in FamilyGroups(fam, root)}

Trees(root) == UNION {FamilyTrees(fam, root) : fam \in Families}

(***************************************************************************)
(* compile: the pipeline job and the output file.                          *)
(***************************************************************************)
NoJob == [built |-> FALSE]
NoFile == << >>

\* pipeline_parameters_override: none, a known parameter, an unknown one
Overrides ==
  {EmptyDict, [n \in {<<"a">>} |-> "v"], [n \in {<<"zzz">>} |-> "v"]}

\* lines 1153-1156: a key that is no pipeline argument raises
OverrideFails(args, override) ==
  \E k \in DOMAIN override : \A j \in 1..Len(args) : args[j].name # k

\* lines 1147-1157: the pipeline parameters by name, with the overridden values
PipelineParameters(args, override) ==
  [n \in {args[j].name : j \in 1..Len(args)} |->
     IF n \in DOMAIN override THEN override[n]
     ELSE (CHOOSE a \in SeqToSet(args) : a.name = n).value]

\* lines 1159-1164
PipelineJob(args, override, spec) ==
  [built |-> TRUE, runtime_parameters |-> PipelineParameters(args, override),
   pipeline_spec |-> spec]

\* package_path: the file paths tried, as <<stem, extension>>
OutputPaths == {<<"pipeline_job", ".json">>, <<"pipeline_job", ".yaml">>}

\* output_path.endswith('.json')
EndsWithJson(output_path) == Last(output_path) = ".json"

\* json_format.MessageToJson: the text of the job, field by field
MessageToJson(job) ==
  <<"{", "runtimeConfig", job.runtime_parameters, "pipelineSpec", job.pipeline_spec, "}">>

\* the file is written before the path is looked at
WrittenTextMutant(file, output_path, job) == MessageToJson(job)

\* lines 1207-1213: what the file at output_path holds after _write_pipeline
WrittenText(file, output_path, job) ==
  IF EndsWithJson(output_path) THEN MessageToJson(job) ELSE file

(***************************************************************************)
(* The compilation as a state machine: _create_pipeline_spec, phase by     *)
(* phase.                                                                  *)
(***************************************************************************)
VARIABLES
  pipeline,          \* the pipeline as handed to the compiler
  tree,              \* its root group, groups, ops and args as the passes leave them
  order,             \* the iteration order of this run's sets
  pc,                \* the position in _create_pipeline_spec
  opsgroups,         \* _get_groups: the group names, in dict order
  op_groups,         \* op_name_to_parent_groups
  opsgroup_groups,   \* opgroup_name_to_parent_groups
  condition_params,
  loops,             \* the keys of op_name_to_for_loop_op
  inputs,
  outputs,
  dependencies,
  pipeline_spec,
  deployment_config, \* its executors
  visited,           \* the number of groups _group_to_dag_spec has been called on
  err,               \* the exception raised, "" if none
  pipeline_job,      \* the PipelineJob built by _create_pipeline_v2, NoJob before
  output_file,       \* the text of the file at package_path, NoFile if not written
  TYPE_CHECK,        \* the global kfp.TYPE_CHECK
  type_check,        \* compile's argument type_check
  type_check_old_value  \* compile's local of that name, Unassigned before line 1184

vars == <<pipeline, tree, order, pc, opsgroups, op_groups, opsgroup_groups,
          condition_params, loops, inputs, outputs, dependencies, pipeline_spec,
          deployment_config, visited, err, pipeline_job, output_file,
          TYPE_CHECK, type_check, type_check_old_value>>

\* kfp.TYPE_CHECK, compile's argument and compile's local: no step of
\* _create_pipeline_v2 or _write_pipeline assigns them
flags == <<TYPE_CHECK, type_check, type_check_old_value>>

Ctx == [t |-> tree, order |-> order, opsgroups |-> opsgroups, op_groups |-> op_groups,
        opsgroup_groups |-> opsgroup_groups, condition_params |-> condition_params,
        loops |-> loops]

\* The compilations considered: each pipeline with the root name generated for it
\* and the order in which this run iterates over its sets.
\* a run: the root's name and the iteration order of the run's sets
RootOrders == {x \in RootNames \X Orders : (x[1][2] = 1) = (x[2] = "asc")}

Init ==
  /\ \E x \in RootOrders : \E fam \in Families : \E t \in FamilyTrees(fam, x[1]) :
       /\ order = x[2]
       /\ tree = t
  /\ pipeline = tree
  /\ pc = "index"
  /\ opsgroups = << >>
  /\ op_groups = EmptyDict
  /\ opsgroup_groups = EmptyDict
  /\ condition_params = EmptyDict
  /\ loops = {}
  /\ inputs = EmptyDict
  /\ outputs = EmptyDict
  /\ dependencies = EmptyDict
  /\ pipeline_spec = EmptyIR
  /\ deployment_config = EmptyDict
  /\ visited = 0
  /\ err = ""
  /\ pipeline_job = NoJob
  /\ output_file = NoFile
  \* inside compile's try block (line 1186), called with the defaults
  /\ type_check = TRUE
  /\ type_check_old_value = TRUE
  /\ TYPE_CHECK = type_check

\* lines 982-998
Index ==
  /\ pc = "index"
  /\ pipeline_spec' = InitialEmitState(tree).ir
  /\ opsgroups' = GetGroups(tree)
  /\ op_groups' = GetGroupsForOps(tree)
  /\ opsgroup_groups' = GetGroupsForOpsgroups(tree)
  /\ pc' = "conditions"
  /\ UNCHANGED <<flags, pipeline_job, output_file, pipeline, tree, order, condition_params, loops, inputs, outputs,
                 dependencies, deployment_config, visited, err>>

\* lines 1000-1001
Propagate ==
  /\ pc = "conditions"
  /\ condition_params' = GetConditionParamsForOps(tree)
  /\ loops' = GetForLoopOps(tree)
  /\ pc' = "io"
  /\ UNCHANGED <<flags, pipeline_job, output_file, pipeline, tree, order, opsgroups, op_groups, opsgroup_groups, inputs,
                 outputs, dependencies, pipeline_spec, deployment_config, visited, err>>

\* lines 1002-1010
ResolveIO ==
  /\ pc = "io"
  /\ \E t1 \in {UnifyTypes(tree, condition_params, order)} :
     \E r \in {GetInputsOutputs([Ctx EXCEPT !.t = t1])} :
        /\ tree' = t1
        /\ inputs' = r.inputs
        /\ outputs' = r.outputs
        /\ err' = r.err
        /\ pc' = IF r.err = "" THEN "dependencies" ELSE "io_failed"
  /\ UNCHANGED <<flags, pipeline_job, output_file, pipeline, order, opsgroups, op_groups, opsgroup_groups,
                 condition_params, loops, dependencies, pipeline_spec,
                 deployment_config, visited>>

\* lines 1011-1018
ResolveDependencies ==
  /\ pc = "dependencies"
  /\ \E r \in {GetDependencies(Ctx)} :
        /\ dependencies' = r.dependencies
        /\ err' = r.err
        /\ pc' = IF r.err = "" THEN "emit" ELSE "dependencies_failed"
  /\ UNCHANGED <<flags, pipeline_job, output_file, pipeline, tree, order, opsgroups, op_groups, opsgroup_groups,
                 condition_params, loops, inputs, outputs, pipeline_spec,
                 deployment_config, visited>>

\* lines 1020-1030: one call of _group_to_dag_spec, on the next group
Emit ==
  /\ pc = "emit"
  /\ visited < Len(opsgroups)
  /\ \E r \in {GroupToDagSpec(Ctx, inputs, dependencies,
                               [ir |-> pipeline_spec, executors |-> deployment_config,
                                cur |-> RootKey, err |-> ""],
                               opsgroups[visited + 1])} :
        /\ pipeline_spec' = r.ir
        /\ deployment_config' = r.executors
        /\ err' = r.err
        /\ pc' = IF r.err = "" THEN "emit" ELSE "emit_failed"
  /\ visited' = visited + 1
  /\ UNCHANGED <<flags, pipeline_job, output_file, pipeline, tree, order, opsgroups, op_groups, opsgroup_groups,
                 condition_params, loops, inputs, outputs, dependencies>>

\* line 1032
Return ==
  /\ pc = "emit"
  /\ visited = Len(opsgroups)
  /\ pc' = "done"
  /\ UNCHANGED <<flags, pipeline_job, output_file, pipeline, tree, order, opsgroups, op_groups, opsgroup_groups,
                 condition_params, loops, inputs, outputs, dependencies, pipeline_spec,
                 deployment_config, visited, err>>

\* lines 1150-1166: the overrides are applied to the pipeline parameters
\* and the job is built around the pipeline spec
OverrideParameters ==
  /\ pc = "done"
  /\ \E override \in Overrides :
       IF OverrideFails(tree.args, override)
       THEN /\ err' = "ValueError"
            /\ pc' = "override_failed"
            /\ UNCHANGED pipeline_job
       ELSE /\ pipeline_job' = PipelineJob(tree.args, override, pipeline_spec)
            /\ pc' = "job_built"
            /\ UNCHANGED err
  /\ UNCHANGED <<flags, pipeline, tree, order, opsgroups, op_groups, opsgroup_groups,
                 condition_params, loops, inputs, outputs, dependencies, pipeline_spec,
                 deployment_config, visited, output_file>>

\* _write_pipeline (lines 1195-1213), called from compile (line 1192)
WritePipeline ==
  /\ pc = "job_built"
  /\ \E output_path \in OutputPaths :
       /\ output_file' = WrittenText(output_file, output_path, pipeline_job)
       /\ err' = IF EndsWithJson(output_path) THEN err ELSE "ValueError"
       /\ pc' = IF EndsWithJson(output_path) THEN "written" ELSE "write_failed"
  /\ UNCHANGED <<flags, pipeline, tree, order, opsgroups, op_groups, opsgroup_groups,
                 condition_params, loops, inputs, outputs, dependencies, pipeline_spec,
                 deployment_config, visited, pipeline_job>>

Next ==
  \/ Index \/ Propagate \/ ResolveIO \/ ResolveDependencies \/ Emit \/ Return
  \/ OverrideParameters \/ WritePipeline

Spec == Init /\ [][Next]_vars

(***************************************************************************)
(* compile (lines 1168-1193): the try block around _create_pipeline_v2 and *)
(* _write_pipeline, and its finally clause.                                *)
(***************************************************************************)
Unassigned == "unassigned"

\* the families whose runs take every way out of compile
CompileFamilies == {"kinds", "group_deps", "attributes"}

\* the state at the call of compile: any value of the global flag, any
\* value of the argument
CompileInit ==
  /\ \E x \in RootOrders : \E fam \in CompileFamilies : \E t \in FamilyTrees(fam, x[1]) :
       /\ order = x[2]
       /\ tree = t
  /\ pipeline = tree
  /\ pc = "compile"
  /\ opsgroups = << >>
  /\ op_groups = EmptyDict
  /\ opsgroup_groups = EmptyDict
  /\ condition_params = EmptyDict
  /\ loops = {}
  /\ inputs = EmptyDict
  /\ outputs = EmptyDict
  /\ dependencies = EmptyDict
  /\ pipeline_spec = EmptyIR
  /\ deployment_config = EmptyDict
  /\ visited = 0
  /\ err = ""
  /\ pipeline_job = NoJob
  /\ output_file = NoFile
  /\ TYPE_CHECK \in BOOLEAN
  /\ type_check \in BOOLEAN
  /\ type_check_old_value = Unassigned

\* lines 1184-1186: the flag is saved, then set to the argument
Enter ==
  /\ pc = "compile"
  /\ type_check_old_value' = TYPE_CHECK
  /\ TYPE_CHECK' = type_check
  /\ pc' = "index"
  /\ UNCHANGED <<pipeline, tree, order, opsgroups, op_groups, opsgroup_groups,
                 condition_params, loops, inputs, outputs, dependencies, pipeline_spec,
                 deployment_config, visited, err, pipeline_job, output_file, type_check>>

\* the positions at which the try block is left: by the end of
\* _write_pipeline or by an exception
Raised == {"io_failed", "dependencies_failed", "emit_failed", "override_failed",
           "write_failed"}

RestoreMutant(old_value, argument) == argument

\* line 1193: the value the finally clause assigns
Restore(old_value, argument) == old_value

\* lines 1192-1193: the finally clause runs on the way out, whichever it is
Finally ==
  /\ pc \in Raised \cup {"written"}
  /\ TYPE_CHECK' = Restore(type_check_old_value, type_check)
  /\ pc' = IF pc = "written" THEN "returned" ELSE "raised"
  /\ UNCHANGED <<pipeline, tree, order, opsgroups, op_groups, opsgroup_groups,
                 condition_params, loops, inputs, outputs, dependencies, pipeline_spec,
                 deployment_config, visited, err, pipeline_job, output_file, type_check,
                 type_check_old_value>>

CompileNext ==
  \/ Enter
  \/ Index \/ Propagate \/ ResolveIO \/ ResolveDependencies \/ Emit \/ Return
  \/ OverrideParameters \/ WritePipeline
  \/ Finally

CompileSpec == CompileInit /\ [][CompileNext]_vars


(***************************************************************************)
(* Properties of the scope indexer.                                        *)
(***************************************************************************)
Indexed == pc # "index"

\* the path recorded for a name, << >> if none is
RecordedPath(n) ==
  IF n \in DOMAIN op_groups THEN op_groups[n]
  ELSE IF n \in DOMAIN opsgroup_groups THEN opsgroup_groups[n]
  ELSE << >>

WellFormedPath(n) ==
  /\ RecordedPath(n) # << >>
  /\ Head(RecordedPath(n)) = tree.root
  /\ Last(RecordedPath(n)) = n

\* C2 as stated: every entity - task, group (the root group is one) or
\* alias group - has a recorded scope path that is non-empty, starts with
\* the root group's name and ends with the entity's own name.
C2_EveryEntityHasPath ==
  Indexed => \A n \in OpNames(tree) \cup GroupNames(tree) \cup {tree.root} :
               WellFormedPath(n)

\* C2 amended: every task, every group other than the root group and every
\* alias group has a recorded scope path that is non-empty, starts with the
\* root group's name and ends with the entity's own name; the root group
\* itself is a key of neither map.
C2_NonRootEntityHasPath ==
  Indexed => /\ \A n \in OpNames(tree) \cup GroupNames(tree) : WellFormedPath(n)
             /\ RecordedPath(tree.root) = << >>

\* an op inside a group and an alias group inside a group both have their paths recorded
C2_Witness ==
  /\ Indexed
  /\ \E i \in OpIds : Len(RecordedPath(tree.ops[i].name)) = 3
  /\ \E j \in GroupIds : IsAlias(tree.groups[j])
                         /\ Len(RecordedPath(tree.groups[j].name)) = 3

RECURSIVE LongestCommonPrefix(_, _)
LongestCommonPrefix(p, q) ==
  IF p = << >> \/ q = << >> \/ Head(p) # Head(q) THEN << >>
  ELSE <<Head(p)>> \o LongestCommonPrefix(Tail(p), Tail(q))

Recorded == {n \in OpNames(tree) \cup GroupNames(tree) : RecordedPath(n) # << >>}

UA(a, b) == GetUncommonAncestors(op_groups, opsgroup_groups, a, b)

\* C3: for any two entities a and b with recorded paths, the uncommon
\* ancestors of (b, a) are those of (a, b) swapped, and the common prefix of
\* the two paths followed by either suffix is that entity's original path.
C3_UncommonAncestorsSwapAndRebuild ==
  Indexed => \A a \in Recorded, b \in Recorded :
    LET pre == LongestCommonPrefix(RecordedPath(a), RecordedPath(b))
    IN /\ ~UA(a, b).err
       /\ UA(b, a).group1 = UA(a, b).group2
       /\ UA(b, a).group2 = UA(a, b).group1
       /\ pre \o UA(a, b).group1 = RecordedPath(a)
       /\ pre \o UA(a, b).group2 = RecordedPath(b)

\* two ops in different subtrees, one deeper than the other
C3_Witness ==
  /\ Indexed
  /\ \E a \in Recorded, b \in Recorded :
       /\ Len(UA(a, b).group1) = 3
       /\ Len(UA(a, b).group2) = 1
       /\ UA(b, a).group1 = <<b>>

(***************************************************************************)
(* Properties of the I/O resolver and of the dependency resolver.          *)
(***************************************************************************)
\* _get_inputs_outputs has returned
IOResolved == pc \notin {"index", "conditions", "io", "io_failed"}

\* _get_dependencies has returned
DependenciesResolved == IOResolved /\ pc \notin {"dependencies", "dependencies_failed"}

\* the tree's own parent relation
ParentOf(n) ==
  IF n \in OpNames(tree) THEN OpByName(tree, n).parent ELSE GroupByName(tree, n).parent

RECURSIVE Ancestors(_)
\* the scopes enclosing n, from its immediate parent up to the root
Ancestors(n) ==
  IF n = tree.root THEN << >> ELSE <<ParentOf(n)>> \o Ancestors(ParentOf(n))

HasEntry(d, scope, p, src) ==
  \E e \in Get(d, scope) : ParamKey(e.param) = ParamKey(p) /\ e.src = src

Mentions(d, scope, p) ==
  \E e \in Get(d, scope) : ParamKey(e.param) = ParamKey(p)

\* what an op consumes: its inputs and the operands of the conditions around it
Consumed(i) == SeqToSet(ConsumedParams(Ctx, tree.ops[i]))

NoProducerNoValue(p) == p.op_name = None /\ p.value = NoValue

InsideLoop(n) == \E j \in 1..Len(Ancestors(n)) : IsParallelFor(tree, Ancestors(n)[j])

\* C4: a parameter with no producing task and no literal value, consumed by
\* a task that is no exit handler and has no enclosing loop group, is a
\* required input (with no source) of every ancestor scope of the task,
\* from its parent up to and including the root.
C4_FreeParamRequiredOnAllAncestors ==
  IOResolved =>
    \A i \in OpIds : \A p \in Consumed(i) :
      (NoProducerNoValue(p) /\ ~tree.ops[i].is_exit_handler
         /\ ~InsideLoop(tree.ops[i].name))
      => \A n \in SeqToSet(Ancestors(tree.ops[i].name)) : HasEntry(inputs, n, p, None)

\* a task two groups deep consumes the pipeline argument
C4_Witness ==
  /\ IOResolved
  /\ \E i \in OpIds : \E p \in Consumed(i) :
       /\ NoProducerNoValue(p) /\ ~tree.ops[i].is_exit_handler
       /\ ~InsideLoop(tree.ops[i].name)
       /\ Len(Ancestors(tree.ops[i].name)) = 3
       /\ \A n \in SeqToSet(Ancestors(tree.ops[i].name)) : HasEntry(inputs, n, p, None)

\* C5: every recorded dependency edge joins two distinct scopes that are
\* direct children of one parent group.
C5_DependencyEdgesJoinSiblings ==
  DependenciesResolved =>
    \A k \in DOMAIN dependencies : \A u \in dependencies[k] :
      /\ k # u
      /\ {k, u} \subseteq OpNames(tree) \cup GroupNames(tree)
      /\ ParentOf(k) = ParentOf(u)

\* an edge between two groups, derived from ops nested in them
C5_Witness ==
  /\ DependenciesResolved
  /\ \E k \in DOMAIN dependencies : \E u \in dependencies[k] :
       k \in GroupNames(tree) /\ u \in GroupNames(tree)

\* every scope that consumes p is an op lying directly in group c
OnlyConsumedInside(p, c) ==
  /\ \A i \in OpIds :
       (\E q \in Consumed(i) : ParamKey(q) = ParamKey(p)) => tree.ops[i].parent = c
  /\ \A j \in GroupIds :
       IsAlias(tree.groups[j]) =>
         ~\E q \in SeqToSet(ConsumedParams(Ctx, tree.groups[j])) : ParamKey(q) = ParamKey(p)
  /\ \A j \in GroupIds :
       (tree.groups[j].type = "for_loop" /\ tree.groups[j].items_is_pipeline_param)
       => ParamKey(tree.groups[j].items_param) # ParamKey(p)

\* C6: when task B consumes the output P of task A and both are direct
\* children of one group C, P is an input of B sourced from A and an output
\* of A; and when no scope outside C's child tasks refers to P, no group -
\* neither C nor any other - has P among its inputs or outputs.
C6_SiblingReferenceStaysInside ==
  IOResolved =>
    \A a \in OpIds, b \in OpIds : \A p \in SeqToSet(tree.ops[b].inputs) :
      (a # b /\ p.op_name = tree.ops[a].name /\ ~Truthy(p.value)
         /\ tree.ops[a].parent = tree.ops[b].parent)
      => /\ HasEntry(inputs, tree.ops[b].name, p, tree.ops[a].name)
         /\ HasEntry(outputs, tree.ops[a].name, p, None)
         /\ OnlyConsumedInside(p, tree.ops[a].parent)
            => \A n \in GroupNames(tree) \cup {tree.root} :
                 ~Mentions(inputs, n, p) /\ ~Mentions(outputs, n, p)

\* the scenario of the claim: A and B inside a condition group inside the root
C6_Witness ==
  /\ IOResolved
  /\ \E a \in OpIds, b \in OpIds : \E p \in SeqToSet(tree.ops[b].inputs) :
       /\ a # b /\ p.op_name = tree.ops[a].name
       /\ tree.ops[a].parent = tree.ops[b].parent
       /\ tree.ops[a].parent \in GroupNames(tree)
       /\ GroupByName(tree, tree.ops[a].parent).type = "condition"
       /\ GroupByName(tree, tree.ops[a].parent).parent = tree.root
       /\ OnlyConsumedInside(p, tree.ops[a].parent)
       /\ HasEntry(inputs, tree.ops[b].name, p, tree.ops[a].name)

(***************************************************************************)
(* Properties of the type-unification pass.                                *)
(***************************************************************************)
\* the type pass has run
TypesUnified == pc \notin {"index", "conditions", "io"}

\* the referencing sites the pass visits: the pipeline arguments, and every
\* op's inputs, outputs and condition parameters
Sites ==
  {<<"arg", i, 0>> : i \in 1..Len(tree.args)}
  \cup SeqToSet(AllOpSites(tree, condition_params, 1, order))

\* C10 as stated: after the type-unification pass all parameter references
\* that share one pattern id - pipeline arguments, task inputs, task outputs
\* and condition parameters - carry the same resolved type.
C10_SitesOfOnePatternShareType ==
  TypesUnified =>
    \A s1 \in Sites, s2 \in Sites :
      Pattern(SiteParam(tree, s1)) = Pattern(SiteParam(tree, s2))
      => SiteParam(tree, s1).param_type = SiteParam(tree, s2).param_type

(***************************************************************************)
(* Properties of the emitted pipeline spec.                                *)
(***************************************************************************)
\* _create_pipeline_spec has returned the pipeline spec
Done == pc = "done"

\* the component that holds the dag body of a scope
ScopeComponent(n) ==
  GetComp(pipeline_spec, IF n = tree.root THEN RootKey ELSE SanitizeComponentName(n))

\* the dag bodies of the pipeline spec, by the key of their component
DagBodies == {RootKey} \cup DOMAIN pipeline_spec.components

Body(key) == GetComp(pipeline_spec, key)

\* the task-spec of op i, looked up in every dag body
TaskSpecsOf(i) ==
  {Body(b).tasks[SanitizeTaskName(tree.ops[i].name)] :
     b \in {x \in DagBodies : SanitizeTaskName(tree.ops[i].name) \in DOMAIN Body(x).tasks}}

StaticLoops == {i \in GroupIds : /\ tree.groups[i].type = "for_loop"
                                 /\ ~IsAlias(tree.groups[i])
                                 /\ ~tree.groups[i].items_is_pipeline_param}

IteratorTaskName(i) == <<"task", <<"for_loop-iterator", tree.groups[i].name[2]>>>>
IteratorComponentName(i) == <<"comp", <<"for_loop-iterator", tree.groups[i].name[2]>>>>

\* the inputs of op j that are the loop value of loop i
UsesOfLoopValue(i, j) ==
  {k \in 1..Len(tree.ops[j].inputs) :
     ParamKey(tree.ops[j].inputs[k]) = ParamKey(tree.groups[i].loop_args)}

\* the iterator of loop i: one component, one task-spec in the loop's body,
\* the items embedded in source order
OneIterator(i) ==
  LET body == ScopeComponent(tree.groups[i].name)
  IN /\ IteratorComponentName(i) \in DOMAIN pipeline_spec.components
     /\ {tn \in DOMAIN body.tasks : body.tasks[tn].iterator.set} = {IteratorTaskName(i)}
     /\ body.tasks[IteratorTaskName(i)].component_ref = IteratorComponentName(i)
     /\ LET raw == body.tasks[IteratorTaskName(i)].iterator.raw
            items == tree.groups[i].items
        IN /\ Len(raw) = (IF items = << >> THEN 2 ELSE 2 * Len(items) + 1)
           /\ \A j \in 1..Len(items) : raw[2 * j] = ItemText(items[j])

\* use k of op j is wired to the iteration input of the iterator of loop i
WiredToIterator(i, j, k) ==
  LET item_input ==
        ScopeComponent(tree.groups[i].name).tasks[IteratorTaskName(i)].iterator.item_input
  IN \A ts \in TaskSpecsOf(j) :
       /\ ts.inputs[<<"in", k>>].kind = "component_input"
       /\ ts.inputs[<<"in", k>>].component_input = item_input
       /\ item_input \in pipeline_spec.components[IteratorComponentName(i)].in_params

\* C7 as stated: for a loop group over a static list there is exactly one
\* iterator component, named after the loop with the suffix '-iterator', and
\* exactly one iterator task-spec in the loop component's body, which embeds
\* the items in source order with duplicates kept; and every task of the
\* loop body that uses the loop value is wired to that iterator component's
\* iteration input.
C7_StaticLoopIterator ==
  Done => \A i \in StaticLoops :
    /\ OneIterator(i)
    /\ \A j \in OpIds :
         tree.groups[i].name \in SeqToSet(Ancestors(tree.ops[j].name))
         => \A k \in UsesOfLoopValue(i, j) : WiredToIterator(i, j, k)

\* the part of C7 that concerns the iterator alone
C7_IteratorPart == Done => \A i \in StaticLoops : OneIterator(i)

\* the part of C7 that concerns the tasks lying directly in the loop
C7_DirectChildrenPart ==
  Done => \A i \in StaticLoops : \A j \in OpIds :
    tree.ops[j].parent = tree.groups[i].name
    => \A k \in UsesOfLoopValue(i, j) : WiredToIterator(i, j, k)

\* the metrics-typed outputs of op i
MetricsOutputs(i) ==
  {o \in DOMAIN tree.ops[i].out_artifacts :
     tree.ops[i].out_artifacts[o] \in {"system.Metrics", "system.ClassificationMetrics"}}

\* C8: for a task with a metrics-typed output, once all groups are emitted
\* the component of every ancestor scope of the task, from its parent up to
\* the root, declares the output under the key '<task name>-<output name>'
\* and has a dag output under that key with exactly one selector, which
\* names the task as producer and the output as key.
C8_MetricsOnEveryAncestor ==
  Done => \A i \in OpIds : \A o \in MetricsOutputs(i) :
    \A n \in SeqToSet(Ancestors(tree.ops[i].name)) :
      LET u == <<<<"task", tree.ops[i].name>>, o>>
          c == ScopeComponent(n)
      IN /\ u \in DOMAIN c.out_artifacts
         /\ c.out_artifacts[u] = tree.ops[i].out_artifacts[o]
         /\ u \in DOMAIN c.dag_outputs
         /\ c.dag_outputs[u] = <<[producer_subtask |-> <<"task", tree.ops[i].name>>,
                                  output_artifact_key |-> o]>>

\* a task three scopes deep with a metrics output, the pipeline compiled
C8_Witness ==
  /\ Done
  /\ \E i \in OpIds :
       /\ MetricsOutputs(i) # {}
       /\ Len(Ancestors(tree.ops[i].name)) = 3
       /\ \A n \in SeqToSet(Ancestors(tree.ops[i].name)) :
            DOMAIN ScopeComponent(n).dag_outputs # {}

DependenciesInBody(c) ==
  \A tn \in DOMAIN c.tasks : SeqToSet(c.tasks[tn].dependent_tasks) \subseteq DOMAIN c.tasks

ProducersInBody(c) ==
  \A tn \in DOMAIN c.tasks : \A k \in DOMAIN c.tasks[tn].inputs :
    c.tasks[tn].inputs[k].kind = "task_output"
    => c.tasks[tn].inputs[k].producer_task \in DOMAIN c.tasks

SelectorsInBody(c) ==
  \A u \in DOMAIN c.dag_outputs : \A j \in 1..Len(c.dag_outputs[u]) :
    c.dag_outputs[u][j].producer_subtask \in DOMAIN c.tasks

\* C9 as stated: in every dag body of the emitted pipeline spec, every task
\* name referenced from inside the body - an entry of a task-spec's
\* dependency list, the producer task of a task-spec's input, the producing
\* sub-task of a dag-output selector - names a task-spec of that same body.
C9_TaskReferencesStayInBody ==
  Done => \A b \in DagBodies :
    DependenciesInBody(Body(b)) /\ ProducersInBody(Body(b)) /\ SelectorsInBody(Body(b))

C9_DependenciesPart == Done => \A b \in DagBodies : DependenciesInBody(Body(b))
C9_ProducersPart == Done => \A b \in DagBodies : ProducersInBody(Body(b))
C9_SelectorsPart == Done => \A b \in DagBodies : SelectorsInBody(Body(b))

(***************************************************************************)
(* Determinism of the compilation.                                         *)
(***************************************************************************)
\* _create_pipeline_spec has returned or raised
Finished == pc \in {"done", "io_failed", "dependencies_failed", "emit_failed"}

\* the same pipeline under another generated root-group name
Renamed(t, rt) ==
  [t EXCEPT !.root = rt,
            !.groups = [i \in DOMAIN @ |->
                          IF @[i].parent = t.root THEN [@[i] EXCEPT !.parent = rt] ELSE @[i]],
            !.ops = [i \in DOMAIN @ |->
                       IF @[i].parent = t.root THEN [@[i] EXCEPT !.parent = rt] ELSE @[i]]]

\* C1: the outcome of _create_pipeline_spec - the pipeline spec returned or
\* the exception raised - is the one that compiling the same tree yields
\* under every iteration order of the sets and under every generated
\* root-group name.
C1_SameTreeSameSpec ==
  Finished =>
    \A rt \in RootNames, o \in Orders :
      CreatePipelineSpec(Renamed(pipeline, rt), o)
        = [err |-> err, pipeline_spec |-> IF err = "" THEN pipeline_spec ELSE EmptyIR]

\* a compiled pipeline in which a task-spec lists two dependent tasks
C1_Witness ==
  /\ Done
  /\ \E b \in DagBodies : \E tn \in DOMAIN Body(b).tasks :
       Len(Body(b).tasks[tn].dependent_tasks) = 2

(***************************************************************************)
(* The visiting order of the emitter.                                      *)
(***************************************************************************)
\* the orders in which the keys of the group map can be visited
VisitingOrders(s) ==
  {[i \in 1..Len(s) |-> s[f[i]]] :
     f \in {g \in [1..Len(s) -> 1..Len(s)] :
              \A i, j \in 1..Len(s) : g[i] = g[j] => i = j}}

\* lines 1020-1030 with the groups visited in the order visit
EmitInOrder(visit) ==
  EmitGroups([Ctx EXCEPT !.opsgroups = visit], inputs, dependencies,
             [ir |-> pipeline_spec, executors |-> deployment_config,
              cur |-> RootKey, err |-> ""], 1)

\* the emitter is about to visit its first group
ReadyToEmit == pc = "emit" /\ visited = 0

\* what a visiting order yields: the exception, or the component table and
\* the executor registry
Yield(visit) ==
  LET r == EmitInOrder(visit)
  IN IF r.err # "" THEN [err |-> r.err, components |-> EmptyDict, executors |-> EmptyDict]
     ELSE [err |-> "", components |-> r.ir.components, executors |-> r.executors]

\* every group comes after its parent group
ParentFirst(visit) ==
  \A i, j \in 1..Len(visit) :
    (visit[j] # tree.root /\ ParentOf(visit[j]) = visit[i]) => i < j

\* C11 as stated: for every permutation of the group visiting order, one call
\* of _group_to_dag_spec per group yields the same component table and the
\* same executor registry.
C11_AnyVisitingOrderSameIR ==
  ReadyToEmit =>
    \A visit \in VisitingOrders(opsgroups) : Yield(visit) = Yield(opsgroups)

\* no two tasks resolve to the same component name or executor label
DistinctComponents ==
  \A i, j \in DOMAIN tree.ops :
    i # j => /\ tree.ops[i].human_name # tree.ops[j].human_name
             /\ tree.ops[i].executor_label # tree.ops[j].executor_label

\* C11, amended: when no two tasks share a component name or an executor
\* label, then for every visiting order in which each group comes after its
\* parent group, one call of _group_to_dag_spec per group yields the same
\* component table (declared inputs of the group components included) and
\* the same executor registry.
C11_ParentFirstOrderSameIR ==
  (ReadyToEmit /\ DistinctComponents) =>
    \A visit \in {v \in VisitingOrders(opsgroups) : ParentFirst(v)} :
      Yield(visit) = Yield(opsgroups)

\* two sibling groups, hence two parent-first orders, one of them with
\* declared inputs, and an emission that succeeds
C11_Witness ==
  /\ ReadyToEmit
  /\ DistinctComponents
  /\ Cardinality({v \in VisitingOrders(opsgroups) : ParentFirst(v)}) > 1
  /\ Yield(opsgroups).err = ""
  /\ \E k \in DOMAIN Yield(opsgroups).components :
       Yield(opsgroups).components[k].in_params # {}

(***************************************************************************)
(* Unknown names.                                                          *)
(***************************************************************************)
\* the names of the pipeline's tasks and groups
KnownNames == OpNames(tree) \cup GroupNames(tree) \cup {tree.root}

\* names handed to _get_uncommon_ancestors: those of the pipeline and two
\* that it does not have
ProbeNames == KnownNames \cup {<<"ghost", 1>>, <<"op", 0>>}

\* the upstream names of the pipeline's tasks and groups: explicit
\* dependencies and the producers of consumed parameters
UpstreamNames ==
  UNION {OpUpstreamNames(Ctx, tree.ops[i]) : i \in OpIds}
  \cup UNION {GroupUpstreamNames(Ctx, tree.groups[i]) : i \in GroupIds}

\* _get_dependencies has returned or raised, unless I/O resolution raised
DependenciesAttempted == pc \notin {"index", "conditions", "io", "dependencies"}

\* C12: _get_uncommon_ancestors raises when the name of either argument is in
\* neither path map; and when an upstream name - an explicit dependency or
\* the producer of a consumed parameter - is neither a task nor a group of
\* the pipeline, resolution ends with an error and no dependency map.
C12_UnknownNamesAreFatal ==
  /\ Indexed =>
       \A a \in ProbeNames, b \in ProbeNames :
         (RecordedPath(a) = << >> \/ RecordedPath(b) = << >>) => UA(a, b).err
  /\ (DependenciesAttempted /\ ~(UpstreamNames \subseteq KnownNames)) =>
       /\ pc \in {"io_failed", "dependencies_failed"}
       /\ err # ""
       /\ dependencies = EmptyDict

\* _get_dependencies was reached and raised on an upstream name that the
\* pipeline does not have
C12_Witness ==
  /\ pc = "dependencies_failed"
  /\ err = "ValueError"
  /\ ~(UpstreamNames \subseteq KnownNames)

(***************************************************************************)
(* Unsupported kinds of group.                                             *)
(***************************************************************************)
\* _group_to_dag_spec has been called at least once; the last call was on
\* the group EmittedGroup
EmitStarted == pc \in {"emit", "emit_failed", "done"} /\ visited >= 1

EmittedGroup == opsgroups[visited]

\* group.groups + group.ops, by name
ChildNames(n) ==
  [j \in 1..Len(ChildGroups(tree, n)) |-> tree.groups[ChildGroups(tree, n)[j]].name]
  \o [j \in 1..Len(ChildOps(tree, n)) |-> tree.ops[ChildOps(tree, n)[j]].name]

IsUnsupportedGroup(n) ==
  n \in GroupNames(tree) /\ GroupByName(tree, n).type \in {"graph", "exit_handler"}

\* the component whose body takes the task-specs of the children of the
\* group g: its own, or its iterator component when g is a loop
ChildBody(g) ==
  IF g # tree.root /\ GroupByName(tree, g).type = "for_loop"
  THEN GetComp(pipeline_spec, SanitizeComponentName(IteratorBaseName(g)))
  ELSE ScopeComponent(g)

\* the task-spec of the child n is in the body of the group g
TaskWritten(g, n) == SanitizeTaskName(n) \in DOMAIN ChildBody(g).tasks

\* the child n of the group g has left no trace in the pipeline spec: no
\* task-spec in g's body, no component and no executor
NothingWritten(g, n) ==
  /\ ~TaskWritten(g, n)
  /\ n \in GroupNames(tree) =>
       SanitizeComponentName(n) \notin DOMAIN pipeline_spec.components
  /\ n \in OpNames(tree) =>
       /\ (\A i \in OpIds : tree.ops[i].name # n
                            => tree.ops[i].human_name # OpByName(tree, n).human_name)
          => SanitizeComponentName(OpByName(tree, n).human_name)
               \notin DOMAIN pipeline_spec.components
       /\ \A l \in DOMAIN deployment_config : deployment_config[l].op # n

\* C13: when the group being emitted has a direct child group of kind graph
\* or exit-handler, emission fails; it fails with the 'unsupported' error
\* when every earlier child was emitted; and no task-spec, component or
\* executor is written for that child or for any later child.
C13_UnsupportedKindsFailFast ==
  EmitStarted =>
    LET cs == ChildNames(EmittedGroup)
        bad == {k \in 1..Len(cs) : IsUnsupportedGroup(cs[k])}
    IN \A k \in bad :
         /\ pc = "emit_failed"
         /\ err # ""
         /\ (\A j \in 1..(k - 1) : TaskWritten(EmittedGroup, cs[j]))
            => err = "NotImplementedError"
         /\ \A j \in k..Len(cs) : NothingWritten(EmittedGroup, cs[j])

\* emission raised at an unsupported child that has an earlier sibling, which
\* was emitted, and a later one
C13_Witness ==
  /\ EmitStarted
  /\ err = "NotImplementedError"
  /\ \E k \in 2..Len(ChildNames(EmittedGroup)) - 1 :
       /\ IsUnsupportedGroup(ChildNames(EmittedGroup)[k])
       /\ TaskWritten(EmittedGroup, ChildNames(EmittedGroup)[k - 1])

(***************************************************************************)
(* Condition operands.                                                     *)
(***************************************************************************)
\* the operand is a reference whose type is no parameter type
ArtifactOperand(operand) ==
  operand.is_param /\ operand.param.param_type \notin {"String", "Integer"}

\* the child condition groups of the group n, aliases included, by id
ConditionChildren(n) ==
  {i \in GroupIds : tree.groups[i].parent = n /\ tree.groups[i].type = "condition"}

HasArtifactOperand(i) ==
  ArtifactOperand(tree.groups[i].operand1) \/ ArtifactOperand(tree.groups[i].operand2)

\* the name under which the task-spec of group i is written
GroupTaskName(i) ==
  SanitizeTaskName(IF IsAlias(tree.groups[i]) THEN tree.groups[i].recursive_ref
                   ELSE tree.groups[i].name)

\* C14: when a condition group among the children of the emitted group has a
\* parameter operand that is not parameter-typed, emission raises and the
\* condition's task-spec gets no trigger; and emission raises
\* NotImplementedError only for such an operand or for an unsupported kind
\* of group, never for literal or parameter-typed operands.
C14_ArtifactOperandRejected ==
  EmitStarted =>
    /\ \A i \in ConditionChildren(EmittedGroup) :
         HasArtifactOperand(i) =>
           /\ pc = "emit_failed"
           /\ err # ""
           /\ (\A j \in GroupIds : GroupTaskName(j) = GroupTaskName(i) => j = i)
              => \/ GroupTaskName(i) \notin DOMAIN ChildBody(EmittedGroup).tasks
                 \/ ChildBody(EmittedGroup).tasks[GroupTaskName(i)].trigger = << >>
    /\ (pc = "emit_failed" /\ err = "NotImplementedError") =>
         \/ \E i \in ConditionChildren(EmittedGroup) : HasArtifactOperand(i)
         \/ \E k \in 1..Len(ChildNames(EmittedGroup)) :
              IsUnsupportedGroup(ChildNames(EmittedGroup)[k])
    /\ pc # "emit_failed" =>
         \A i \in ConditionChildren(EmittedGroup) :
           /\ GroupTaskName(i) \in DOMAIN ChildBody(EmittedGroup).tasks
           /\ ChildBody(EmittedGroup).tasks[GroupTaskName(i)].trigger # << >>

\* emission raised at a condition whose operand is the artifact output of a
\* task
C14_Witness ==
  /\ EmitStarted
  /\ pc = "emit_failed"
  /\ err = "NotImplementedError"
  /\ \E i \in ConditionChildren(EmittedGroup) :
       /\ tree.groups[i].operand1.is_param
       /\ tree.groups[i].operand1.param.param_type = "Model"

\* a condition with a parameter-typed reference and a literal was lowered
C14_WitnessLowered ==
  /\ EmitStarted
  /\ pc # "emit_failed"
  /\ \E i \in ConditionChildren(EmittedGroup) :
       /\ tree.groups[i].operand1.is_param
       /\ ~tree.groups[i].operand2.is_param

(***************************************************************************)
(* The output file.                                                        *)
(***************************************************************************)
\* C15: a compilation that raised - while indexing, resolving, emitting,
\* applying the parameter overrides or validating the output path - has
\* written no file; a file that was written holds the job built around the
\* complete pipeline spec of the pipeline.
C15_FailedCompilationWritesNothing ==
  /\ err # "" => output_file = NoFile
  /\ output_file # NoFile =>
       /\ pc = "written"
       /\ pipeline_job.built
       /\ output_file = MessageToJson(pipeline_job)
       /\ CreatePipelineSpec(pipeline, order)
            = [err |-> "", pipeline_spec |-> pipeline_job.pipeline_spec]

\* the job was built and the output path was rejected
C15_Witness ==
  /\ pc = "write_failed"
  /\ err = "ValueError"
  /\ pipeline_job.built
  /\ output_file = NoFile

\* C16: for any two entities with recorded paths, the split point of
\* _get_uncommon_ancestors (the count of positions at which the two paths
\* agree) equals the length of their longest common prefix, the two returned
\* suffixes are the paths with that prefix removed, and when both suffixes are
\* non-empty their first elements differ.
C16_SplitPointIsLongestCommonPrefix ==
  Indexed => \A a \in Recorded, b \in Recorded :
    LET pa == RecordedPath(a)
        pb == RecordedPath(b)
        k == Len(LongestCommonPrefix(pa, pb))
        ua == UA(a, b)
    IN /\ ~ua.err
       /\ CommonGroupsLen(pa, pb) = k
       /\ ua.group1 = SubSeq(pa, k + 1, Len(pa))
       /\ ua.group2 = SubSeq(pb, k + 1, Len(pb))
       /\ (ua.group1 # << >> /\ ua.group2 # << >>) => ua.group1[1] # ua.group2[1]

\* two entities that part below the root's child, and an entity with one of
\* its own ancestors
C16_Witness ==
  /\ Indexed
  /\ \E a \in Recorded, b \in Recorded :
       /\ Len(LongestCommonPrefix(RecordedPath(a), RecordedPath(b))) >= 2
       /\ Len(UA(a, b).group1) >= 1
       /\ Len(UA(a, b).group2) >= 2
  /\ \E a \in Recorded, b \in Recorded :
       /\ a # b
       /\ UA(a, b).group1 = << >>
       /\ UA(a, b).group2 # << >>

Propagated == pc \notin {"index", "conditions"}

\* the tasks and alias groups of the tree
TasksAndAliases ==
  {n \in Recorded : n \in OpNames(tree) \/ IsAlias(GroupByName(tree, n))}

\* the non-literal operands of the condition groups among the ancestors of n
AncestorOperands(n) ==
  {ParamKey(Operand(tree.groups[r[1]], r[2]).param) : r \in
     {r \in GroupIds \X {1, 2} :
        /\ tree.groups[r[1]].type = "condition"
        /\ \E j \in 1..Len(Ancestors(n)) : Ancestors(n)[j] = tree.groups[r[1]].name
        /\ Operand(tree.groups[r[1]], r[2]).is_param}}

\* parameters are told apart as the set does it, by op_name and name
RecordedOperands(n) == {ParamKey(CondParam(tree, r)) : r \in Get(condition_params, n)}

\* C17: after condition-parameter propagation the set recorded for each task,
\* and for each alias group under the alias's own name, is exactly the set of
\* non-literal operands of the condition groups that are ancestors of that
\* entity; nothing is recorded under any other name, so the operands of a
\* condition group reach neither its siblings nor entities outside its subtree.
C17_ConditionParamsAreAncestorOperands ==
  Propagated =>
    /\ \A n \in TasksAndAliases : RecordedOperands(n) = AncestorOperands(n)
    /\ DOMAIN condition_params \subseteq TasksAndAliases

\* an entity under two nested conditions next to one that is outside the
\* inner condition and carries the outer operands only
C17_Witness ==
  /\ Propagated
  /\ \E n \in TasksAndAliases, m \in TasksAndAliases :
       /\ RecordedOperands(m) # {}
       /\ RecordedOperands(n) # RecordedOperands(m)
       /\ RecordedOperands(m) \subseteq RecordedOperands(n)

\* the op loop's state before any reference is resolved
NoEntries == [err |-> "", inputs |-> EmptyDict, outputs |-> EmptyDict]

\* the references of C18: task i consumes the non-literal parameter p whose
\* producing task is in the pipeline
ProducedReferences ==
  {r \in OpIds \X UNION {Consumed(i) : i \in OpIds} :
     /\ r[2] \in Consumed(r[1])
     /\ r[2].value = NoValue
     /\ r[2].op_name \in OpNames(tree)}

\* what C18 says one reference adds to inputs
ExpectedInputs(p, up, down, scope) ==
  IF down # << >> /\ scope = down[1] THEN {Entry(p, up[1])}
  ELSE IF \E j \in 2..Len(down) : down[j] = scope THEN {Entry(p, None)}
  ELSE {}

\* what C18 says one reference adds to outputs
ExpectedOutputs(p, up, scope) ==
  IF \E j \in 1..(Len(up) - 1) : up[j] = scope
  THEN {Entry(p, up[j + 1]) : j \in {j \in 1..(Len(up) - 1) : up[j] = scope}}
  ELSE IF up # << >> /\ scope = up[Len(up)] THEN {Entry(p, None)}
  ELSE {}

\* C18: for a task T consuming a non-literal parameter P produced by task U,
\* with (up, down) the uncommon ancestors of U and T, the reference adds
\* (P, up[0]) to inputs on down[0] and (P, none) on every later name of down,
\* adds (P, up[i+1]) to outputs on every up[i] but the last and (P, none) on
\* the last, and adds no entry on any other scope; the entries are in the
\* maps the resolver returns.
C18_ProducedParamEntries ==
  IOResolved =>
    \A r \in ProducedReferences :
      LET p == r[2]
          ua == UA(p.op_name, tree.ops[r[1]].name)
          st == ResolveOpParam(Ctx, NoEntries, tree.ops[r[1]], p)
      IN /\ ~ua.err /\ st.err = ""
         /\ \A scope \in OpNames(tree) \cup GroupNames(tree) \cup {tree.root} :
              /\ Get(st.inputs, scope) = ExpectedInputs(p, ua.group1, ua.group2, scope)
              /\ Get(st.outputs, scope) = ExpectedOutputs(p, ua.group1, scope)
              /\ \A e \in Get(st.inputs, scope) : HasEntry(inputs, scope, e.param, e.src)
              /\ \A e \in Get(st.outputs, scope) : HasEntry(outputs, scope, e.param, e.src)

\* producer and consumer are each nested in a group of their own below the
\* point where their paths part: two upstream and two downstream scopes
C18_Witness ==
  /\ IOResolved
  /\ \E r \in ProducedReferences :
       LET ua == UA(r[2].op_name, tree.ops[r[1]].name)
       IN /\ Len(ua.group1) >= 2
          /\ Len(ua.group2) >= 2
          /\ HasEntry(inputs, ua.group2[1], r[2], ua.group1[1])
          /\ HasEntry(inputs, ua.group2[2], r[2], None)
          /\ HasEntry(outputs, ua.group1[1], r[2], ua.group1[2])
          /\ HasEntry(outputs, ua.group1[Len(ua.group1)], r[2], None)

\* the loop group named l originates p: p is its loop argument or a
\* sub-variable of it
Originates(l, p) ==
  LET la == GroupByName(tree, l).loop_args
  IN /\ IsParallelFor(tree, l)
     /\ p.op_name = la.op_name
     /\ \/ p.name = la.name
        \/ /\ Len(p.name) = Len(la.name) + 2
           /\ SubSeq(p.name, 1, Len(la.name)) = la.name
           /\ p.name[Len(la.name) + 1] = "subvar"

\* the enclosing loops of n that originate p
OriginsAround(n, p) ==
  {l \in SeqToSet(Ancestors(n)) : l \in GroupNames(tree) /\ Originates(l, p)}

\* the references of C19: task i, not an exit handler, consumes the
\* no-producer parameter p, which exactly one enclosing loop originates
LoopReferences ==
  {r \in OpIds \X UNION {Consumed(i) : i \in OpIds} :
     /\ r[2] \in Consumed(r[1])
     /\ NoProducerNoValue(r[2])
     /\ ~tree.ops[r[1]].is_exit_handler
     /\ Cardinality(OriginsAround(tree.ops[r[1]].name, r[2])) = 1}

OriginOf(r) == CHOOSE l \in OriginsAround(tree.ops[r[1]].name, r[2]) : TRUE

\* the task of the reference and the scopes between it and l, inclusive
UpTo(r, l) ==
  {n \in SeqToSet(op_groups[tree.ops[r[1]].name]) :
     n = l \/ \E j \in 1..Len(Ancestors(n)) : Ancestors(n)[j] = l}

\* the scopes the reference registers as requiring its parameter
RegisteredBy(r) ==
  LET st == ResolveOpParam(Ctx, NoEntries, tree.ops[r[1]], r[2])
  IN {n \in DOMAIN st.inputs : Mentions(st.inputs, n, r[2])}

\* C19 as stated: for a non-exit-handler task T consuming a no-producer
\* parameter P that is, or derives from, the iteration variable of an
\* enclosing loop L, outward propagation stops at L: T and every scope between
\* T and L inclusive are registered as requiring P and no scope outside L is,
\* for nested loops too, including loops whose iteration-variable names share
\* a textual prefix.
C19_PropagationStopsAtOriginatingLoop ==
  IOResolved =>
    \A r \in LoopReferences :
      /\ RegisteredBy(r) = UpTo(r, OriginOf(r))
      /\ \A n \in UpTo(r, OriginOf(r)) : HasEntry(inputs, n, r[2], None)

\* the loops around the task of the reference whose loop argument name occurs
\* in the name of its parameter
NameMatches(r) ==
  {l \in SeqToSet(Ancestors(tree.ops[r[1]].name)) :
     l \in loops /\ NameIn(GroupByName(tree, l).loop_args.name, r[2].name)}

\* what the code does: the walk stops at the innermost enclosing loop whose
\* loop argument name occurs in the parameter's name
C19_StopsAtInnermostNameMatch ==
  IOResolved =>
    \A r \in LoopReferences :
      \E l \in NameMatches(r) :
        /\ \A m \in NameMatches(r) : m \in UpTo(r, m) => l \in UpTo(r, m)
        /\ RegisteredBy(r) = UpTo(r, l)

\* C19 where no name collides: when the originating loop is the only
\* enclosing loop whose loop argument name occurs in the parameter's name,
\* the walk stops at it
C19_DistinctNamesPart ==
  IOResolved =>
    \A r \in LoopReferences :
      NameMatches(r) = {OriginOf(r)} => RegisteredBy(r) = UpTo(r, OriginOf(r))

\* a task in the inner of two nested loops consumes the outer loop's argument
C19_NestedLoopReached ==
  /\ IOResolved
  /\ \E r \in LoopReferences :
       /\ Cardinality(UpTo(r, OriginOf(r))) = 3
       /\ NameMatches(r) = {OriginOf(r)}
       /\ RegisteredBy(r) = UpTo(r, OriginOf(r))

\* the alias groups the indexer recorded
Aliases == {i \in GroupIds : IsAlias(tree.groups[i]) /\ tree.groups[i].name \in Recorded}

DeclaredInputs(i) == SeqToSet(tree.groups[i].inputs)

\* the condition parameters of alias i that a task of the pipeline produces
\* and that are not declared inputs of the alias as well
ProducedConditionParams(i) ==
  {p \in {CondParam(tree, r) : r \in Get(condition_params, tree.groups[i].name)} :
     /\ p.value = NoValue
     /\ p.op_name \in OpNames(tree)
     /\ \A q \in DeclaredInputs(i) : ParamKey(q) # ParamKey(p)}

\* the downstream suffix of alias i against the producer of p
DownstreamOf(i, p) == UA(p.op_name, tree.groups[i].name).group2

\* C20 as stated: for an alias group, a condition parameter that has a
\* producing task is not registered as a required input on the alias's own
\* scope, whatever the length of the downstream suffix, including when the
\* alias is the only name in it, while the declared inputs of the alias are
\* registered on the alias's own scope.
C20_ConditionParamNotOnAlias ==
  IOResolved =>
    \A i \in Aliases :
      /\ \A p \in ProducedConditionParams(i) : ~Mentions(inputs, tree.groups[i].name, p)
      /\ \A p \in DeclaredInputs(i) :
           p.value = NoValue => Mentions(inputs, tree.groups[i].name, p)

\* what the code does: the condition parameter is left out on the alias when
\* the alias is a later name of the downstream suffix, and registered with the
\* first upstream name as its source when the alias is the only name in it
C20_LongSuffixPart ==
  IOResolved =>
    \A i \in Aliases : \A p \in ProducedConditionParams(i) :
      IF Len(DownstreamOf(i, p)) > 1
      THEN ~Mentions(inputs, tree.groups[i].name, p)
      ELSE HasEntry(inputs, tree.groups[i].name, p, UA(p.op_name, tree.groups[i].name).group1[1])

\* the declared inputs of an alias are registered on the alias's own scope
C20_DeclaredInputsPart ==
  IOResolved =>
    \A i \in Aliases : \A p \in DeclaredInputs(i) :
      p.value = NoValue => Mentions(inputs, tree.groups[i].name, p)

\* an alias below the condition whose operand a task outside it produces,
\* and an alias with a declared input
C20_LongSuffixReached ==
  /\ IOResolved
  /\ \E i \in Aliases : \E p \in ProducedConditionParams(i) :
       /\ Len(DownstreamOf(i, p)) > 1
       /\ \E q \in DeclaredInputs(i) : q.value = NoValue

\* the no-producer parameters an alias group consumes, each with
\* is_condition_param as the resolver sets it
AliasFreeParams(i) ==
  {<<p, FALSE>> : p \in {q \in DeclaredInputs(i) : NoProducerNoValue(q)}}
  \cup {<<p, TRUE>> : p \in
          {q \in {CondParam(tree, r) : r \in Get(condition_params, tree.groups[i].name)} :
             NoProducerNoValue(q)}}

\* what the resolver registers for parameter x[1] of alias i
AliasRegisters(i, x) ==
  ResolveAliasParam(Ctx, NoEntries, tree.groups[i], x[1], x[2]).inputs

\* what the resolver registers for a task on the alias's path consuming x[1]:
\* the outward walk with its stop at the loop
TaskWouldRegister(i, x) ==
  WalkOutward(tree, loops, EmptyDict, x[1], Reverse(op_groups[tree.groups[i].name]), 1)

\* the scopes of a registration
ScopesOf(d, p) == {n \in DOMAIN d : Mentions(d, n, p)}

\* C21 as stated: for a no-producer parameter of an alias group, declared
\* input or condition parameter, the enclosing scopes are registered as
\* requiring it walking outward from the alias and the walk stops at the loop
\* that originates the parameter, exactly as for a task at the same position
\* consuming the same parameter.
C21_AliasWalksLikeTask ==
  IOResolved =>
    \A i \in Aliases : \A x \in AliasFreeParams(i) :
      ScopesOf(AliasRegisters(i, x), x[1]) = ScopesOf(TaskWouldRegister(i, x), x[1])

\* what the code does: a declared input is registered on every scope of the
\* alias's path, loops or not, and a condition parameter on none
C21_WholePathOrNothing ==
  IOResolved =>
    \A i \in Aliases : \A x \in AliasFreeParams(i) :
      /\ ScopesOf(AliasRegisters(i, x), x[1])
           = IF x[2] THEN {} ELSE SeqToSet(op_groups[tree.groups[i].name])
      /\ \A n \in ScopesOf(AliasRegisters(i, x), x[1]) : HasEntry(inputs, n, x[1], None)

\* C21 for declared inputs that no enclosing loop stops
C21_DeclaredOutsideLoopsPart ==
  IOResolved =>
    \A i \in Aliases : \A x \in AliasFreeParams(i) :
      (~x[2] /\ \A n \in SeqToSet(op_groups[tree.groups[i].name]) :
                  ~StopsAtLoop(tree, loops, n, x[1]))
      => ScopesOf(AliasRegisters(i, x), x[1]) = ScopesOf(TaskWouldRegister(i, x), x[1])

\* an alias inside a loop declares the loop's argument as its input
C21_AliasInLoopReached ==
  /\ IOResolved
  /\ \E i \in Aliases : \E x \in AliasFreeParams(i) :
       /\ ~x[2]
       /\ \E n \in SeqToSet(op_groups[tree.groups[i].name]) :
            StopsAtLoop(tree, loops, n, x[1])
       /\ ScopesOf(AliasRegisters(i, x), x[1]) # ScopesOf(TaskWouldRegister(i, x), x[1])

\* the references to a parameter that carries a literal value: <<"op", i, p>>
\* for task i, <<"alias", i, p, is_condition_param>> for alias group i
LiteralReferences ==
  {<<"op", i, p>> : <<i, p>> \in
     {x \in OpIds \X UNION {Consumed(i) : i \in OpIds} :
        x[2] \in Consumed(x[1]) /\ x[2].value # NoValue}}
  \cup
  {<<"alias", i, p, FALSE>> : <<i, p>> \in
     {x \in Aliases \X UNION {DeclaredInputs(i) : i \in Aliases} :
        x[2] \in DeclaredInputs(x[1]) /\ x[2].value # NoValue}}

\* the entries the resolver adds for one reference
Resolved(r) ==
  IF r[1] = "op" THEN ResolveOpParam(Ctx, NoEntries, tree.ops[r[2]], r[3])
  ELSE ResolveAliasParam(Ctx, NoEntries, tree.groups[r[2]], r[3], r[4])

AddsNothing(st) ==
  /\ \A n \in DOMAIN st.inputs : st.inputs[n] = {}
  /\ \A n \in DOMAIN st.outputs : st.outputs[n] = {}

\* C22 as stated: a parameter that carries a literal value, whatever the
\* value, is skipped by I/O resolution: consuming it in a task or an alias
\* group adds no entry to the input set or output set of any scope.
C22_LiteralParamSkipped ==
  IOResolved => \A r \in LiteralReferences : AddsNothing(Resolved(r))

\* what the code does: the parameter is skipped when its value is truthy
C22_TruthyLiteralPart ==
  IOResolved =>
    \A r \in LiteralReferences : Truthy(r[3].value) => AddsNothing(Resolved(r))

\* a task consumes a parameter with a truthy literal
C22_TruthyLiteralReached ==
  /\ IOResolved
  /\ \E r \in LiteralReferences : r[1] = "op" /\ Truthy(r[3].value) /\ AddsNothing(Resolved(r))

\* an empty-string literal is registered like a parameter without value
C22_FalsyLiteralReached ==
  /\ IOResolved
  /\ \E r \in LiteralReferences :
       /\ r[1] = "op"
       /\ ~Truthy(r[3].value)
       /\ \E n \in SeqToSet(Ancestors(tree.ops[r[2]].name)) : HasEntry(inputs, n, r[3], None)

\* the names a task depends on: its explicit dependency names and the
\* producers of its inputs and condition parameters
TaskUpstream(i) ==
  tree.ops[i].dependent_names
  \cup {p.op_name : p \in {q \in Consumed(i) : q.op_name # None}}

\* the names a group depends on: its declared dependency list and, for an
\* alias group, the producers of its inputs and condition parameters
GroupUpstream(i) ==
  tree.groups[i].dependencies
  \cup (IF IsAlias(tree.groups[i])
        THEN {p.op_name : p \in
                {q \in DeclaredInputs(i)
                         \cup {CondParam(tree, r) :
                                 r \in Get(condition_params, tree.groups[i].name)} :
                   q.op_name # None}}
        ELSE {})

\* the first name of a's path below the longest common prefix with b's path
FirstUncommon(a, b) ==
  RecordedPath(a)[Len(LongestCommonPrefix(RecordedPath(a), RecordedPath(b))) + 1]

\* the edge for downstream entity d and upstream name u
EdgeOf(d, u) == <<FirstUncommon(d, u), FirstUncommon(u, d)>>

ExpectedEdges ==
  {EdgeOf(tree.ops[x[1]].name, x[2]) : x \in
     {y \in OpIds \X UNION {TaskUpstream(i) : i \in OpIds} : y[2] \in TaskUpstream(y[1])}}
  \cup
  {EdgeOf(tree.groups[x[1]].name, x[2]) : x \in
     {y \in GroupIds \X UNION {GroupUpstream(i) : i \in GroupIds} :
        y[2] \in GroupUpstream(y[1])}}

RecordedEdges == {x \in (DOMAIN dependencies) \X UNION {dependencies[k] : k \in DOMAIN dependencies} :
                    x[2] \in dependencies[x[1]]}

\* C23: the dependency map equals exactly this edge set: for every task, and
\* every group with its declared dependency list plus, for an alias group, the
\* producers of its inputs and condition parameters, and for every upstream
\* name among its explicit dependency names and the producing-task names of
\* its consumed parameters, one edge from the first downstream-suffix name to
\* the first upstream-suffix name; no other edge is recorded.
C23_DependencyMapIsEdgeSet ==
  DependenciesResolved => RecordedEdges = ExpectedEdges

\* a group nested in another group declares a dependency on a task of the
\* root: the edge joins the outer group to the task
C23_Witness ==
  /\ DependenciesResolved
  /\ \E i \in GroupIds : \E u \in tree.groups[i].dependencies :
       /\ u \in OpNames(tree)
       /\ FirstUncommon(tree.groups[i].name, u) # tree.groups[i].name
       /\ EdgeOf(tree.groups[i].name, u) \in RecordedEdges
       /\ \A j \in OpIds : u \notin TaskUpstream(j)

\* _group_to_dag_spec is about to be called on the next group
Emitting == pc = "emit" /\ visited < Len(opsgroups)

NextGroup == opsgroups[visited + 1]

\* the emit state on entry to the loop over the children of the next group
EnteringState ==
  LET cur == IF NextGroup = tree.root THEN RootKey ELSE SanitizeComponentName(NextGroup)
  IN [ir |-> SetComp(pipeline_spec, cur, GetComp(pipeline_spec, cur)),
      executors |-> deployment_config, cur |-> cur, err |-> ""]

\* the k-th child of the next group, groups first
ChildAt(k) ==
  LET gs == ChildGroups(tree, NextGroup)
      os == ChildOps(tree, NextGroup)
  IN IF k <= Len(gs) THEN tree.groups[gs[k]] ELSE tree.ops[os[k - Len(gs)]]

ChildIsOp(k) == k > Len(ChildGroups(tree, NextGroup))

RECURSIVE EmittedUpTo(_)
\* the emit state after the first k children of the next group
EmittedUpTo(k) ==
  IF k = 0 THEN EnteringState
  ELSE EmitSubgroup(inputs, dependencies, order, EmittedUpTo(k - 1),
                    ScopeByName(tree, NextGroup),
                    {SanitizeTaskName(n) : n \in SeqToSet(ChildNames(NextGroup))},
                    ChildIsOp(k), ChildAt(k))

\* the component name the k-th child resolves to: a task's component, a
\* group's own name, an alias's referent
ResolvedComponentName(k) ==
  IF ChildIsOp(k) THEN SanitizeComponentName(ChildAt(k).human_name)
  ELSE SanitizeComponentName(IF IsAlias(ChildAt(k)) THEN ChildAt(k).recursive_ref
                             ELSE ChildAt(k).name)

\* the declared inputs, outputs and executable reference of component n
Declared(es, n) ==
  LET c == es.ir.components[n]
  IN <<c.in_params, c.in_artifacts, c.out_artifacts, c.executor_label>>

\* emitting the k-th child leaves the component of its name as registered
KeepsRegistered(k) ==
  ResolvedComponentName(k) \in DOMAIN EmittedUpTo(k - 1).ir.components
  => Declared(EmittedUpTo(k), ResolvedComponentName(k))
       = Declared(EmittedUpTo(k - 1), ResolvedComponentName(k))

\* C24 as stated: component registration is first-writer-wins: once a
\* component is registered under a name, emitting a later child of any kind -
\* task, importer task, group, alias - that resolves to the same component
\* name leaves the registered component's declared inputs, outputs and
\* executable reference unchanged.
C24_FirstWriterWins ==
  Emitting => \A k \in 1..Len(ChildNames(NextGroup)) : KeepsRegistered(k)

\* what the code does: every child but an importer task leaves it unchanged
C24_NonImporterPart ==
  Emitting =>
    \A k \in 1..Len(ChildNames(NextGroup)) :
      ~(ChildIsOp(k) /\ ChildAt(k).importer_spec) => KeepsRegistered(k)

\* a task and an alias are emitted whose component names are registered
C24_CollisionReached ==
  /\ Emitting
  /\ \E k \in 1..Len(ChildNames(NextGroup)) :
       /\ ChildIsOp(k) /\ ~ChildAt(k).importer_spec
       /\ ResolvedComponentName(k) \in DOMAIN EmittedUpTo(k - 1).ir.components
       /\ EmittedUpTo(k).err = ""
       /\ OpComponentSpec(ChildAt(k)).out_artifacts
            # EmittedUpTo(k - 1).ir.components[ResolvedComponentName(k)].out_artifacts

\* an importer task is emitted under a registered component name
C24_ImporterOverwrites ==
  /\ Emitting
  /\ \E k \in 1..Len(ChildNames(NextGroup)) :
       /\ ChildIsOp(k) /\ ChildAt(k).importer_spec
       /\ ~KeepsRegistered(k)

\* the children of the next group that carry both a custom-job executor and
\* a container executor
BothExecutors ==
  {k \in 1..Len(ChildNames(NextGroup)) :
     ChildIsOp(k) /\ ChildAt(k).custom_job_spec /\ ChildAt(k).container_spec}

\* C25: for a child that carries both a custom-job executor and a container
\* executor the container is never written to the executor registry: if the
\* child's executor label was not registered before, the entry under that
\* label is the custom job, and otherwise the existing entry is left
\* unchanged.
C25_CustomJobBeforeContainer ==
  Emitting =>
    \A k \in BothExecutors :
      LET before == EmittedUpTo(k - 1).executors
          after == EmittedUpTo(k)
          label == ChildAt(k).executor_label
      IN after.err = "" =>
           /\ label \in DOMAIN after.executors
           /\ \A l \in DOMAIN before : l \in DOMAIN after.executors
                                       /\ after.executors[l] = before[l]
           /\ label \notin DOMAIN before
              => after.executors[label] = [kind |-> "custom_job", op |-> ChildAt(k).name]
           /\ \A l \in DOMAIN after.executors :
                ~(after.executors[l].kind = "container"
                  /\ after.executors[l].op = ChildAt(k).name)

\* two such children of one group: the label of the first is new, the
\* second shares the label of the first
C25_Witness ==
  /\ Emitting
  /\ \E k \in BothExecutors, j \in BothExecutors :
       /\ ChildAt(k).executor_label \notin DOMAIN EmittedUpTo(k - 1).executors
       /\ EmittedUpTo(k).executors[ChildAt(k).executor_label].kind = "custom_job"
       /\ j > k
       /\ ChildAt(j).executor_label = ChildAt(k).executor_label
       /\ EmittedUpTo(j).err = ""
       /\ EmittedUpTo(j).executors[ChildAt(j).executor_label].op = ChildAt(k).name

(***************************************************************************)
(* compile and the global type-check flag.                                 *)
(***************************************************************************)
Exited == pc \in {"returned", "raised"}

\* C26: whatever the value of kfp.TYPE_CHECK at the call of compile and
\* whatever the type_check argument, the flag has its pre-call value again
\* once compile has been left, by returning or by raising.
C26_TypeCheckRestored ==
  \A before \in BOOLEAN :
    (pc = "compile" /\ TYPE_CHECK = before) => [](Exited => TYPE_CHECK = before)

\* compile has been left by an exception, after running with the flag set to
\* an argument that differs from the restored value
C26_RaisedWithOtherArgument ==
  /\ pc = "raised"
  /\ type_check # TYPE_CHECK

====
